---- MODULE Spec2Model ----
(***************************************************************************)
(* A model of the Cahn language pipeline: the recursive-descent parser     *)
(* (compiler/syntactical_analysis/parser.rs), the single-pass code         *)
(* generator (compiler/codegen/codegenerator.rs), the stack virtual        *)
(* machine (runtime/vm.rs) and its mark-and-sweep memory manager           *)
(* (runtime/mem_manager.rs), built with the feature string_interning.      *)
(*                                                                         *)
(* Abstractions: an f64 is modelled by an exact fraction; a string is a    *)
(* sequence of one-character strings; a raw pointer is an address in       *)
(* 1..NumAddrs (0 is the null pointer), and the allocator returns the      *)
(* lowest free address.  The 64-bit hash of a string is modelled by the    *)
(* sum of its character codes, which, like any hash, maps some different   *)
(* strings to one value.                                                   *)
(***************************************************************************)
EXTENDS Integers, Sequences, FiniteSets, TLC

VARIABLES
    \* ---- string interner and lexer
    interner,                   \* the Interner: [strings, big_string]
    atoms,                      \* the Atoms handed out, with the text asked for
    lexer,                      \* the Lexer's source and cells
    lex_pc,                     \* where lex_token stands ("idle" between calls)
    lexed,                      \* the types of the tokens returned so far
    \* ---- parser
    tokens,                     \* the tokens the lexer yields, Eof last
    peek_pos,                   \* the index of peek_token in tokens
    parse_status, parse_error,  \* outcome of parse_program
    \* ---- code generator (one CodeGenerator per function)
    prog,                       \* the ProgramStmt handed to gen_executable
    todo,                       \* pending work of the recursive visit (call stack)
    code, code_map, current_source_position,
    locals, scope_level,
    num_consts, num_consts_map,
    string_data, string_data_map,
    functions,
    cg_status, cg_error,
    \* ---- virtual machine
    stack, ip, fp, stdout,
    curr_func_index,            \* the function being run, as an index of exec.functions
    status, error,              \* outcome of VM::run
    dropped,                    \* the VM (and its MemoryManager) has been dropped
    mem_manager,
    \* ---- history, used to state the claims
    last_op,                    \* the memory-manager call the last step made
    spans,                      \* the code range emitted for each visited node
    scope_chain,                \* the open blocks and the names declared in each
    entered,                    \* the spans being executed, with the entry depth
    shadow,                     \* the variables alive in the run, innermost last
    frames                      \* the calls in progress, innermost last

frontVars == <<interner, atoms, lexer, lex_pc, lexed>>
parseVars == <<tokens, peek_pos, parse_status, parse_error>>
cgVars == <<frontVars, parseVars, prog, todo, code, code_map, current_source_position, locals,
            scope_level, num_consts, num_consts_map, string_data,
            string_data_map, functions, cg_status, cg_error>>
vmVars == <<stack, ip, fp, curr_func_index, stdout, status, error, dropped,
           mem_manager>>
ghostVars == <<spans, scope_chain, entered, shadow, frames>>
vars == <<cgVars, vmVars, last_op, ghostVars>>

---------------------------------------------------------------------------
(* Bounds of the model *)

MaxStack == 3       \* value-stack depth explored under SpecHeap
MaxStrLen == 2      \* longest heap string built under SpecHeap
MaxListLen == 1     \* longest list built under SpecHeap
MaxAllocs == 3      \* allocations made in one run under SpecHeap
MaxStmts == 2       \* statements of a program under Spec

\* addresses the allocator can hand out: one more than the allocations of a
\* run, so that Box::new always finds a free one
NumAddrs == MaxAllocs + 1

NULL == 0
Addrs == 1..NumAddrs

---------------------------------------------------------------------------
(* Sequences and strings *)

Last(s) == s[Len(s)]
Front(s) == SubSeq(s, 1, Len(s) - 1)

Alphabet == <<"a", "b", "c", "0", "1", "2", "3", "4", "5", "6", "7", "8", "9",
              "-", "[", "]", ",", " ", "t", "r", "u", "e", "f", "l", "s",
              "n", "i", "<", ">", ":", "C", "h", "M", "d", "x", "y", "#",
              "p", "w", "o", "\"", "/", "\n", ".", "_", "=", "!", "*", ";",
              "{", "}", "(", ")", "+", "%">>

CharCode(c) == CHOOSE i \in 1..Len(Alphabet) : Alphabet[i] = c

RECURSIVE SumCodes(_)
SumCodes(s) == IF s = <<>> THEN 0 ELSE CharCode(s[1]) + SumCodes(Tail(s))

\* the content hash both interners key their tables by
hash_string(string) == SumCodes(string)

DigitChar == <<"0", "1", "2", "3", "4", "5", "6", "7", "8", "9">>

RECURSIVE NatToStr(_)
NatToStr(n) ==
    IF n < 10 THEN <<DigitChar[n + 1]>>
    ELSE NatToStr(n \div 10) \o <<DigitChar[(n % 10) + 1]>>

\* default formatting of a number with no fractional part
NumToStr(n) == IF n < 0 THEN <<"-">> \o NatToStr(-n) ELSE NatToStr(n)

---------------------------------------------------------------------------
(* f64.  A number is the exact fraction num/den in lowest terms with      *)
(* den > 0; den = 0 holds the values that are not finite: num = 1 is inf, *)
(* num = -1 is -inf and num = 0 is NaN.  Rounding and the sign of zero    *)
(* are not modelled.                                                      *)

Abs(n) == IF n < 0 THEN -n ELSE n
Sign(n) == IF n < 0 THEN -1 ELSE IF n = 0 THEN 0 ELSE 1

RECURSIVE GCD(_, _)
GCD(a, b) == IF b = 0 THEN a ELSE GCD(b, a % b)

F64(n, d) ==
    IF d = 0 THEN [num |-> Sign(n), den |-> 0]
    ELSE LET g == GCD(Abs(n), Abs(d))
         IN  [num |-> (Sign(d) * Sign(n)) * (Abs(n) \div g),
              den |-> Abs(d) \div g]

NaN == F64(0, 0)
is_nan(q) == q.den = 0 /\ q.num = 0
is_finite(q) == q.den # 0

f64_neg(a) == [a EXCEPT !.num = -@]
f64_add(a, b) ==
    IF a.den = 0 /\ b.den = 0 THEN (IF a.num = b.num THEN a ELSE NaN)
    ELSE F64(a.num * b.den + b.num * a.den, a.den * b.den)
f64_sub(a, b) == f64_add(a, f64_neg(b))
f64_mul(a, b) == F64(a.num * b.num, a.den * b.den)
f64_recip(b) ==
    IF b.num = 0 THEN (IF b.den = 0 THEN NaN ELSE F64(1, 0))
    ELSE IF b.den = 0 THEN F64(0, 1)
    ELSE F64(b.den, b.num)
f64_div(a, b) == f64_mul(a, f64_recip(b))

\* trunc of a finite number: the whole part, towards zero
f64_trunc(q) == Sign(q.num) * (Abs(q.num) \div q.den)

\* the % of f64: the remainder has the sign of the dividend
f64_rem(a, b) ==
    IF a.den = 0 \/ b.num = 0 THEN NaN
    ELSE IF b.den = 0 THEN a
    ELSE f64_sub(a, f64_mul(F64(f64_trunc(f64_div(a, b)), 1), b))

f64_lt(a, b) ==
    /\ ~is_nan(a) /\ ~is_nan(b)
    /\ IF a.den = 0 /\ b.den = 0 THEN a.num < b.num
       ELSE a.num * b.den < b.num * a.den
f64_eq(a, b) == ~is_nan(a) /\ a = b
f64_le(a, b) == f64_lt(a, b) \/ f64_eq(a, b)

\* fract() == 0.0
f64_is_whole(q) == q.den = 1

\* `as usize` of a number that is not inf: NaN and the negative numbers
\* give 0, the others their whole part (inf gives usize::MAX, which the
\* callers treat apart)
as_usize(q) == IF q.den = 0 \/ q.num < 0 THEN 0 ELSE q.num \div q.den

\* the digits after the point of r/den (r < den), as Display prints them
FractionDigits == 16
RECURSIVE FmtFraction(_, _, _)
FmtFraction(r, den, digits) ==
    IF r = 0 \/ digits = 0 THEN <<>>
    ELSE <<DigitChar[((r * 10) \div den) + 1]>>
            \o FmtFraction((r * 10) % den, den, digits - 1)

\* impl Display for f64
FmtF64(q) ==
    IF is_nan(q) THEN <<"N", "a", "N">>
    ELSE IF q.den = 0
    THEN (IF q.num < 0 THEN <<"-">> ELSE <<>>) \o <<"i", "n", "f">>
    ELSE (IF q.num < 0 THEN <<"-">> ELSE <<>>)
            \o NatToStr(Abs(q.num) \div q.den)
            \o (IF q.den = 1 THEN <<>>
                ELSE <<".">> \o FmtFraction(Abs(q.num) % q.den, q.den,
                                            FractionDigits))

---------------------------------------------------------------------------
(* runtime::Value *)

VNil == [nil |-> TRUE]
VBool(b) == [bool |-> b]
\* Value::Number of a whole number
VNumber(n) == F64(n, 1)
VStringLiteral(s, e) == [start_index |-> s, end_index |-> e]
VHeap(p) == [ptr |-> p]
VFunction(i) == [function_index |-> i]
VReturnAdress(i) == [ret_ip |-> i]

IsNil(v) == "nil" \in DOMAIN v
IsBool(v) == "bool" \in DOMAIN v
IsNumber(v) == "num" \in DOMAIN v
IsStringLiteral(v) == "start_index" \in DOMAIN v
IsHeap(v) == "ptr" \in DOMAIN v
IsFunction(v) == "function_index" \in DOMAIN v
IsReturnAdress(v) == "ret_ip" \in DOMAIN v

is_truthy(v) ==
    IF IsBool(v) THEN v.bool
    ELSE IF IsNil(v) THEN FALSE
    ELSE TRUE

---------------------------------------------------------------------------
(* Heap objects and the memory manager *)

FreedCell == [freed |-> TRUE]
IsFreed(cell) == "freed" \in DOMAIN cell

HString(s) == [string |-> s]
HList(l) == [list |-> l]
IsHString(p) == "string" \in DOMAIN p
IsHList(p) == "list" \in DOMAIN p

HeapValueHeader(marked, next, payload) ==
    [is_marked |-> marked, next_heap_val |-> next, payload |-> payload]

\* MemoryManager::new; cells is the memory behind the raw pointers,
\* fault records a failed assertion or an access to a freed object
MemoryManager_new ==
    [heap_vals |-> NULL,
     intern_string_map |-> <<>>,
     total_allocs |-> 0,
     total_deallocs |-> 0,
     cells |-> [a \in Addrs |-> FreedCell],
     fault |-> "none"]

FreeAddrs(M) == {a \in Addrs : IsFreed(M.cells[a])}

\* Box::new: the allocator hands out the lowest free address, so that a
\* freed address is reused by the very next allocation
BoxAddrs(M) == {a \in FreeAddrs(M) : \A b \in FreeAddrs(M) : a <= b}

\* IntMap::remove
MapRemove(m, k) == [x \in (DOMAIN m) \ {k} |-> m[x]]

\* IntMap::insert: a key already present keeps its value
MapInsert(m, k, v) == IF k \in DOMAIN m THEN m ELSE (k :> v) @@ m

\* the Heap pointers among a sequence of values, in order
RECURSIVE HeapPtrs(_)
HeapPtrs(vals) ==
    IF vals = <<>> THEN <<>>
    ELSE IF IsHeap(vals[1]) THEN <<vals[1].ptr>> \o HeapPtrs(Tail(vals))
    ELSE HeapPtrs(Tail(vals))

RECURSIVE mark(_, _)
RECURSIVE MarkEach(_, _)
\* roots.for_each(|root| self.mark(root)), and the children loop of mark
MarkEach(M, ptrs) ==
    IF ptrs = <<>> THEN M
    ELSE MarkEach(mark(M, ptrs[1]), Tail(ptrs))

mark(M, ptr) ==
    IF M.fault # "none" THEN M
    ELSE IF IsFreed(M.cells[ptr]) THEN [M EXCEPT !.fault = "use_after_free"]
    ELSE IF M.cells[ptr].is_marked THEN M
    ELSE LET M1 == [M EXCEPT !.cells[ptr].is_marked = TRUE]
             payload == M.cells[ptr].payload
         IN  IF IsHList(payload) THEN MarkEach(M1, HeapPtrs(payload.list))
             ELSE M1

\* dealloc that leaves the intern table alone
dealloc_KeepsInternEntry(M, ptr) ==
    IF M.fault # "none" THEN M
    ELSE IF IsFreed(M.cells[ptr]) THEN [M EXCEPT !.fault = "double_free"]
    ELSE [M EXCEPT !.cells[ptr] = FreedCell, !.total_deallocs = @ + 1]

dealloc(M, ptr) ==
    IF M.fault # "none" THEN M
    ELSE IF IsFreed(M.cells[ptr]) THEN [M EXCEPT !.fault = "double_free"]
    ELSE LET payload == M.cells[ptr].payload
             M1 == [M EXCEPT !.cells[ptr] = FreedCell]
         IN  IF IsHString(payload)
             THEN LET hash == hash_string(payload.string)
                      removed_value_is_some == hash \in DOMAIN M.intern_string_map
                      M2 == [M1 EXCEPT !.intern_string_map = MapRemove(@, hash)]
                  IN  IF removed_value_is_some
                      THEN [M2 EXCEPT !.total_deallocs = @ + 1]
                      ELSE [M2 EXCEPT !.fault = "assert_intern_entry"]
             ELSE [M1 EXCEPT !.total_deallocs = @ + 1]

\* first loop of sweep: free unmarked objects at the head of the list
RECURSIVE SweepHead(_)
SweepHead(M) ==
    IF M.fault # "none" THEN M
    ELSE IF M.heap_vals # NULL /\ IsFreed(M.cells[M.heap_vals])
    THEN [M EXCEPT !.fault = "use_after_free"]
    ELSE IF M.heap_vals # NULL /\ ~M.cells[M.heap_vals].is_marked
    THEN LET next == M.cells[M.heap_vals].next_heap_val
             M1 == dealloc(M, M.heap_vals)
         IN  SweepHead([M1 EXCEPT !.heap_vals = next])
    ELSE M

\* second loop of sweep: base_ptr is the last reachable object seen
RECURSIVE SweepRest(_, _, _)
SweepRest(M, base_ptr, current_ptr) ==
    IF M.fault # "none" \/ current_ptr = NULL THEN M
    ELSE IF IsFreed(M.cells[current_ptr])
    THEN [M EXCEPT !.fault = "use_after_free"]
    ELSE IF M.cells[current_ptr].is_marked
    THEN SweepRest([M EXCEPT !.cells[current_ptr].is_marked = FALSE],
                   current_ptr, M.cells[current_ptr].next_heap_val)
    ELSE LET unreachable_heal_val == current_ptr
             next == M.cells[current_ptr].next_heap_val
             M1 == [M EXCEPT !.cells[base_ptr].next_heap_val = next]
         IN  SweepRest(dealloc(M1, unreachable_heal_val), base_ptr, next)

\* sweep without its second loop: only the unmarked objects at the head of
\* the list are freed
sweep_HeadOnly(M) ==
    LET M1 == SweepHead(M)
    IN  IF M1.fault # "none" \/ M1.heap_vals = NULL THEN M1
        ELSE [M1 EXCEPT !.cells[M1.heap_vals].is_marked = FALSE]

sweep(M) ==
    LET M1 == SweepHead(M)
    IN  IF M1.fault # "none" \/ M1.heap_vals = NULL THEN M1
        ELSE LET M2 == [M1 EXCEPT !.cells[M1.heap_vals].is_marked = FALSE]
             IN  SweepRest(M2, M2.heap_vals, M2.cells[M2.heap_vals].next_heap_val)

gc(M, roots) == sweep(MarkEach(M, roots))

should_gc == TRUE

\* alloc that collects with the stack as the only roots
alloc_NewObjectNoRoot(M, vm_stack, val, a) ==
    LET M1 == [M EXCEPT !.cells[a] = HeapValueHeader(FALSE, M.heap_vals, val),
                        !.heap_vals = a,
                        !.total_allocs = @ + 1]
    IN  gc(M1, HeapPtrs(vm_stack))

\* alloc: box the object at address a, link it at the head, then collect
\* with the stack's Heap values and the new pointer as roots
alloc(M, vm_stack, val, a) ==
    LET M1 == [M EXCEPT !.cells[a] = HeapValueHeader(FALSE, M.heap_vals, val),
                        !.heap_vals = a,
                        !.total_allocs = @ + 1]
    IN  IF should_gc THEN gc(M1, HeapPtrs(vm_stack) \o <<a>>) ELSE M1

\* alloc_string that never consults the intern table
alloc_string_AlwaysAllocates(M, vm_stack, string, a) ==
    LET M1 == alloc(M, vm_stack, HString(string), a)
    IN  [M |-> [M1 EXCEPT !.intern_string_map =
                              (hash_string(string) :> a) @@ @],
         val |-> VHeap(a)]

\* alloc_string (feature string_interning): [M, val]
alloc_string(M, vm_stack, string, a) ==
    LET string_hash == hash_string(string)
    IN  IF string_hash \in DOMAIN M.intern_string_map
        THEN [M |-> M, val |-> VHeap(M.intern_string_map[string_hash])]
        ELSE LET M1 == alloc(M, vm_stack, HString(string), a)
             IN  [M |-> [M1 EXCEPT !.intern_string_map =
                                       MapInsert(@, string_hash, a)],
                  val |-> VHeap(a)]

alloc_list(M, vm_stack, init_cap, a) ==
    [M |-> alloc(M, vm_stack, HList(<<>>), a), val |-> VHeap(a)]

RECURSIVE dealloc_all(_)
dealloc_all(M) ==
    IF M.fault # "none" \/ M.heap_vals = NULL THEN M
    ELSE IF IsFreed(M.cells[M.heap_vals])
    THEN [M EXCEPT !.fault = "use_after_free"]
    ELSE LET ptr == M.heap_vals
             M1 == [M EXCEPT !.heap_vals = M.cells[ptr].next_heap_val]
         IN  dealloc_all(dealloc(M1, ptr))

\* a MemoryManager without a Drop implementation
MemoryManager_drop_Leaks(M) == M

\* impl Drop for MemoryManager
MemoryManager_drop(M) == dealloc_all(gc(M, <<>>))

\* the addresses linked in the object list, from the head
RECURSIVE Chain(_, _, _)
Chain(M, ptr, fuel) ==
    IF ptr = NULL \/ fuel = 0 \/ IsFreed(M.cells[ptr]) THEN <<>>
    ELSE <<ptr>> \o Chain(M, M.cells[ptr].next_heap_val, fuel - 1)

Linked(M) == Chain(M, M.heap_vals, NumAddrs)
LinkedSet(M) == {Linked(M)[i] : i \in DOMAIN Linked(M)}

---------------------------------------------------------------------------
(* Formatting of values (impl Display for FormatableValue / HeapValue) *)

\* stands for the output of a formatting that never returns (a list that
\* contains itself)
Endless == <<"#">>
IsEndless(s) == \E i \in DOMAIN s : s[i] = "#"

FmtFuel == NumAddrs + 1

\* impl Display for FormatableCahnFunction (a named function)
FmtFunction(f, sd) ==
    <<"<", "f", "n", " ">> \o SubSeq(sd, f.name.start_index + 1, f.name.end_index)
        \o <<":">> \o NatToStr(f.param_count) \o <<">">>

RECURSIVE FmtValue(_, _, _, _, _)
RECURSIVE FmtList(_, _, _, _, _, _)
FmtList(list, index, M, sd, fns, fuel) ==
    IF index > Len(list) THEN <<>>
    ELSE FmtValue(list[index], M, sd, fns, fuel)
            \o (IF index + 1 <= Len(list) THEN <<",", " ">> ELSE <<>>)
            \o FmtList(list, index + 1, M, sd, fns, fuel)

FmtValue(v, M, sd, fns, fuel) ==
    IF IsBool(v) THEN (IF v.bool THEN <<"t", "r", "u", "e">>
                       ELSE <<"f", "a", "l", "s", "e">>)
    ELSE IF IsNil(v) THEN <<"n", "i", "l">>
    ELSE IF IsNumber(v) THEN FmtF64(v)
    ELSE IF IsFunction(v) THEN FmtFunction(fns[v.function_index + 1], sd)
    ELSE IF IsReturnAdress(v)
    THEN <<"<", "r", "e", "t", "u", "r", "n", "a", "d", "d", "r", " ">>
            \o NatToStr(v.ret_ip) \o <<">">>
    ELSE IF IsStringLiteral(v) THEN SubSeq(sd, v.start_index + 1, v.end_index)
    ELSE IF IsHString(M.cells[v.ptr].payload) THEN M.cells[v.ptr].payload.string
    ELSE IF fuel = 0 THEN Endless
    ELSE <<"[">> \o FmtList(M.cells[v.ptr].payload.list, 1, M, sd, fns, fuel - 1)
            \o <<"]">>

\* a Heap value whose object has been freed
Dangling(v, M) == IsHeap(v) /\ IsFreed(M.cells[v.ptr])

---------------------------------------------------------------------------
(* exec_instruction, one operator per instruction.  S is the machine     *)
(* state [stack, ip, fp, func, mm, out, status, error]; operands are     *)
(* decoded by the caller, and S.ip already points behind them.           *)

\* history: the memory-manager call a step made (name, the string handed to
\* alloc_string) and whether the step deallocated an interned string
MemOp(name, string, M, M2) ==
    [name |-> name, string |-> string,
     freed_string |-> \E h \in DOMAIN M.intern_string_map :
                         \/ h \notin DOMAIN M2.intern_string_map
                         \/ M2.intern_string_map[h] # M.intern_string_map[h]]

NoMemOp == [name |-> "other", string |-> <<>>, freed_string |-> FALSE]

Machine ==
    [stack |-> stack, ip |-> ip, fp |-> fp, func |-> curr_func_index,
     mm |-> mem_manager,
     out |-> stdout, status |-> status, error |-> error]

\* Option::unwrap on None, an index out of bounds, an explicit panic!
Panicked(S, why) == [S EXCEPT !.status = "panic", !.error = [panic |-> why]]
\* a read through a pointer to a freed object
Undefined(S) == [S EXCEPT !.status = "ub"]
\* stack overflow of the formatter: the process is killed
Aborted(S) == [S EXCEPT !.status = "abort"]
Raised(S, err) == [S EXCEPT !.status = "error", !.error = err]

TypeError(msg) == [type |-> "TypeError", message |-> msg]
IndexOutOfBounds(index, len) ==
    [type |-> "IndexOutOfBounds", index |-> index, len |-> len]

push(S, val) == [S EXCEPT !.stack = Append(@, val)]

\* the stack with its top n values popped (as many as there are)
Popped(S, n) ==
    [S EXCEPT !.stack = SubSeq(@, 1, IF Len(@) >= n THEN Len(@) - n ELSE 0)]

Exec_LoadStringLiteral(S, start_index, end_index) ==
    push(S, VStringLiteral(start_index, end_index))

Exec_LoadLitNum(S, num) == push(S, VNumber(num))

Exec_LoadConstNum(S, consts, num_index) ==
    IF num_index + 1 > Len(consts) THEN Panicked(S, "index out of bounds")
    ELSE push(S, consts[num_index + 1])

Exec_LoadTrue(S) == push(S, VBool(TRUE))
Exec_LoadFalse(S) == push(S, VBool(FALSE))
Exec_LoadNil(S) == push(S, VNil)
Exec_LoadFunction(S, function_index) == push(S, VFunction(function_index))

Exec_Concat(S, sd, fns, a) ==
    IF Len(S.stack) < 2 THEN Panicked(Popped(S, 2), "unwrap on None")
    ELSE LET right_val == S.stack[Len(S.stack)]
             left_val == S.stack[Len(S.stack) - 1]
             S1 == Popped(S, 2)
         IN  IF Dangling(left_val, S.mm) \/ Dangling(right_val, S.mm)
             THEN Undefined(S1)
             ELSE LET new_string == FmtValue(left_val, S.mm, sd, fns, FmtFuel)
                                      \o FmtValue(right_val, S.mm, sd, fns, FmtFuel)
                  IN  IF IsEndless(new_string) THEN Aborted(S1)
                      ELSE LET r == alloc_string(S.mm, S1.stack, new_string, a)
                           IN  IF r.M.fault # "none"
                               THEN Panicked([S1 EXCEPT !.mm = r.M], r.M.fault)
                               ELSE push([S1 EXCEPT !.mm = r.M], r.val)

\* the string Concat is about to allocate (<<>> when it does not get there)
ConcatString(S, sd, fns) ==
    IF Len(S.stack) < 2 THEN <<>>
    ELSE LET right_val == S.stack[Len(S.stack)]
             left_val == S.stack[Len(S.stack) - 1]
         IN  IF Dangling(left_val, S.mm) \/ Dangling(right_val, S.mm) THEN <<>>
             ELSE FmtValue(left_val, S.mm, sd, fns, FmtFuel)
                    \o FmtValue(right_val, S.mm, sd, fns, FmtFuel)

\* whether this Concat reaches MemoryManager::alloc_string
ConcatCallsAllocString(S, sd, fns) ==
    /\ Len(S.stack) >= 2
    /\ ~Dangling(S.stack[Len(S.stack)], S.mm)
    /\ ~Dangling(S.stack[Len(S.stack) - 1], S.mm)
    /\ ~IsEndless(ConcatString(S, sd, fns))

\* whether this Concat reaches MemoryManager::alloc
ConcatAllocates(S, sd, fns) ==
    /\ Len(S.stack) >= 2
    /\ ~Dangling(S.stack[Len(S.stack)], S.mm)
    /\ ~Dangling(S.stack[Len(S.stack) - 1], S.mm)
    /\ ~IsEndless(ConcatString(S, sd, fns))
    /\ hash_string(ConcatString(S, sd, fns)) \notin DOMAIN S.mm.intern_string_map

Exec_CreateList(S, init_cap, a) ==
    LET r == alloc_list(S.mm, S.stack, init_cap, a)
    IN  IF r.M.fault # "none" THEN Panicked([S EXCEPT !.mm = r.M], r.M.fault)
        ELSE push([S EXCEPT !.mm = r.M], r.val)

Exec_ListPush(S) ==
    IF Len(S.stack) < 2 THEN Panicked(Popped(S, 1), "unwrap on None")
    ELSE LET right == S.stack[Len(S.stack)]
             list_val == S.stack[Len(S.stack) - 1]
             S1 == Popped(S, 1)
         IN  IF Dangling(list_val, S.mm) THEN Undefined(S1)
             ELSE IF IsHeap(list_val) /\ IsHList(S.mm.cells[list_val.ptr].payload)
             THEN [S1 EXCEPT !.mm.cells[list_val.ptr].payload.list = Append(@, right)]
             ELSE Raised(S1, TypeError("tried to push an element to a non-list type"))

Exec_ListGetIndex(S) ==
    IF Len(S.stack) < 2 THEN Panicked(Popped(S, 2), "unwrap on None")
    ELSE LET index == S.stack[Len(S.stack)]
             list == S.stack[Len(S.stack) - 1]
             S1 == Popped(S, 2)
         IN  IF Dangling(list, S.mm) THEN Undefined(S1)
             ELSE IF ~(IsHeap(list) /\ IsHList(S.mm.cells[list.ptr].payload))
             THEN Raised(S1, TypeError("[] operator expected a list"))
             ELSE LET elems == S.mm.cells[list.ptr].payload.list
                  IN  IF IsNumber(index)
                      THEN IF \/ f64_lt(index, VNumber(0))
                              \/ (index.den = 0 /\ index.num = 1)
                              \/ as_usize(index) >= Len(elems)
                           THEN Raised(S1, IndexOutOfBounds(index, Len(elems)))
                           ELSE push(S1, elems[as_usize(index) + 1])
                      ELSE Raised(S1, TypeError("[] operator expected number"))

\* SetLocal that stores the top of the stack without popping it
Exec_SetLocal_Peeks(S, stack_offset) ==
    IF Len(S.stack) < 1 THEN Panicked(S, "unwrap on None")
    ELSE IF S.fp + stack_offset + 1 > Len(S.stack)
    THEN Panicked(S, "index out of bounds")
    ELSE [S EXCEPT !.stack[S.fp + stack_offset + 1] = S.stack[Len(S.stack)]]

\* SetLocal / SetLocalW: the value is popped first, then the slot is indexed
Exec_SetLocal(S, stack_offset) ==
    IF Len(S.stack) < 1 THEN Panicked(S, "unwrap on None")
    ELSE LET val == S.stack[Len(S.stack)]
             S1 == Popped(S, 1)
         IN  IF S.fp + stack_offset + 1 > Len(S1.stack)
             THEN Panicked(S1, "index out of bounds")
             ELSE [S1 EXCEPT !.stack[S.fp + stack_offset + 1] = val]

\* GetLocal / GetLocalW
Exec_GetLocal(S, stack_offset) ==
    IF S.fp + stack_offset + 1 > Len(S.stack)
    THEN Panicked(S, "index out of bounds")
    ELSE push(S, S.stack[S.fp + stack_offset + 1])

Exec_Dup(S) ==
    IF Len(S.stack) < 1 THEN Panicked(S, "unwrap on None")
    ELSE push(S, S.stack[Len(S.stack)])

Exec_Pop(S) ==
    IF Len(S.stack) < 1 THEN Panicked(S, "unwrap on None")
    ELSE Popped(S, 1)

\* Add, Sub, Mul, Div, Modulo and the number comparisons: pop right, pop
\* left
\* arithmetic that answers Nil for operands that are not numbers
Exec_Binary_NilOnMismatch(S, op) ==
    IF Len(S.stack) < 2 THEN Panicked(Popped(S, 2), "unwrap on None")
    ELSE push(Popped(S, 2), VNil)

Exec_Binary(S, op) ==
    IF Len(S.stack) < 2 THEN Panicked(Popped(S, 2), "unwrap on None")
    ELSE LET right == S.stack[Len(S.stack)]
             left == S.stack[Len(S.stack) - 1]
             S1 == Popped(S, 2)
         IN  IF IsNumber(left) /\ IsNumber(right)
             THEN push(S1,
                    CASE op = "Add" -> f64_add(left, right)
                      [] op = "Sub" -> f64_sub(left, right)
                      [] op = "Mul" -> f64_mul(left, right)
                      [] op = "Div" -> f64_div(left, right)
                      [] op = "Modulo" -> f64_rem(left, right)
                      [] op = "LessThan" -> VBool(f64_lt(left, right))
                      [] op = "LessThanOrEqual" -> VBool(f64_le(left, right))
                      [] op = "GreaterThan" -> VBool(f64_lt(right, left))
                      [] op = "GreaterThanOrEqual" -> VBool(f64_le(right, left)))
             ELSE Raised(S1, TypeError(op))

Exec_Negate(S) ==
    IF Len(S.stack) < 1 THEN Panicked(S, "unwrap on None")
    ELSE LET val == S.stack[Len(S.stack)]
         IN  IF IsNumber(val) THEN push(Popped(S, 1), f64_neg(val))
             ELSE Raised(Popped(S, 1), TypeError("Negate"))

Exec_Not(S) ==
    IF Len(S.stack) < 1 THEN Panicked(S, "unwrap on None")
    ELSE push(Popped(S, 1), VBool(~is_truthy(S.stack[Len(S.stack)])))

\* derived PartialEq of Value: same variant and equal fields, numbers by
\* the == of f64 and heap values by the address of the object
ValueEq(left, right) ==
    IF IsNumber(left) /\ IsNumber(right) THEN f64_eq(left, right)
    ELSE left = right

Exec_Equal(S) ==
    IF Len(S.stack) < 2 THEN Panicked(Popped(S, 2), "unwrap on None")
    ELSE push(Popped(S, 2),
              VBool(ValueEq(S.stack[Len(S.stack) - 1], S.stack[Len(S.stack)])))

\* Print: pop, write the formatted value and a newline to the sink
Exec_Print(S, sd, fns) ==
    IF Len(S.stack) < 1 THEN Panicked(S, "unwrap on None")
    ELSE LET val == S.stack[Len(S.stack)]
             S1 == Popped(S, 1)
         IN  IF Dangling(val, S.mm) THEN Undefined(S1)
             ELSE LET text == FmtValue(val, S.mm, sd, fns, FmtFuel)
                  IN  IF IsEndless(text) THEN Aborted(S1)
                      ELSE [S1 EXCEPT !.out = Append(@, text)]

Exec_Jump(S, jump_location) == [S EXCEPT !.ip = jump_location]

\* JumpIfFalse that leaves the condition on the stack
Exec_JumpIfFalse_KeepsCondition(S, jump_location) ==
    IF Len(S.stack) < 1 THEN Panicked(S, "unwrap on None")
    ELSE IF ~is_truthy(S.stack[Len(S.stack)])
    THEN [S EXCEPT !.ip = jump_location]
    ELSE S

Exec_JumpIfFalse(S, jump_location) ==
    IF Len(S.stack) < 1 THEN Panicked(S, "unwrap on None")
    ELSE IF ~is_truthy(S.stack[Len(S.stack)])
    THEN [Popped(S, 1) EXCEPT !.ip = jump_location]
    ELSE Popped(S, 1)

\* the machine state becomes the next state
Becomes(S) ==
    /\ stack' = S.stack
    /\ ip' = S.ip
    /\ fp' = S.fp
    /\ curr_func_index' = S.func
    /\ mem_manager' = S.mm
    /\ stdout' = S.out
    /\ status' = S.status
    /\ error' = S.error


---------------------------------------------------------------------------
(* Tokens, atoms and the syntax tree (lexical_analysis/token.rs,          *)
(* string_handling/string_interner.rs, ast/expr.rs, ast/stmt.rs)          *)

\* an Atom is a range of the interner's buffer; two atoms of one interner
\* are equal when their ranges are
Atom(start_index, end_index) ==
    [start_index |-> start_index, end_index |-> end_index]

\* the interner's buffer where it holds the lexemes of the programs below:
\* x y 1 2 300 "a" 0 0.5 1.0
big_string ==
    <<"x", "y", "1", "2", "3", "0", "0", "\"", "a", "\"", "0", "0", ".", "5",
      "1", ".", "0">>

run_on_str(atom) == SubSeq(big_string, atom.start_index + 1, atom.end_index)

\* Atom::cut, for a cut that stays inside the atom
cut(atom, cut_start, cut_end) ==
    Atom(atom.start_index + cut_start, atom.end_index - cut_end)

\* RCInterner::new
RCInterner_new == [strings |-> <<>>, big_string |-> <<>>]

\* the text of a range of an interner's buffer
Slice(I, atom) == SubSeq(I.big_string, atom.start_index + 1, atom.end_index)

\* RCInterner::intern: [I, atom].  The table is keyed by the hash alone
intern(I, str_to_intern) ==
    LET hash == hash_string(str_to_intern)
    IN  IF hash \in DOMAIN I.strings
        THEN [I |-> I, atom |-> Atom(I.strings[hash][1], I.strings[hash][2])]
        ELSE LET start_index == Len(I.big_string)
                 end_index == start_index + Len(str_to_intern)
             IN  [I |-> [strings |-> (hash :> <<start_index, end_index>>)
                                        @@ I.strings,
                         big_string |-> I.big_string \o str_to_intern],
                  atom |-> Atom(start_index, end_index)]

\* Atom::cut with its panics and its entry in the table: [I, atom, panic]
Atom_cut(I, atom, cut_start, cut_end) ==
    IF atom.start_index + cut_start > atom.end_index
    THEN [I |-> I, atom |-> atom, panic |-> "can't cut past endindex"]
    ELSE IF atom.end_index < cut_end
    THEN [I |-> I, atom |-> atom, panic |-> "can't cut before zero"]
    ELSE IF atom.end_index - cut_end < atom.start_index + cut_start
    THEN [I |-> I, atom |-> atom, panic |-> "can't cut before startindex"]
    ELSE LET new_start == atom.start_index + cut_start
             new_end == atom.end_index - cut_end
             new_atom == Atom(new_start, new_end)
             hash == hash_string(Slice(I, new_atom))
         IN  [I |-> IF hash \in DOMAIN I.strings THEN I
                    ELSE [I EXCEPT !.strings =
                                      (hash :> <<new_start, new_end>>) @@ @],
              atom |-> new_atom, panic |-> ""]

\* impl PartialEq for Atom, for two atoms of one interner
Atom_eq(a, b) == a.start_index = b.start_index /\ a.end_index = b.end_index

\* the value of a sequence of digits
RECURSIVE ParseDigits(_)
ParseDigits(str) ==
    IF str = <<>> THEN 0
    ELSE ParseDigits(Front(str)) * 10
            + ((CHOOSE i \in DOMAIN DigitChar : DigitChar[i] = Last(str)) - 1)

RECURSIVE Pow10(_)
Pow10(k) == IF k = 0 THEN 1 ELSE 10 * Pow10(k - 1)

\* str::parse::<f64> of a lexeme of the lexer: digits, or digits, a point
\* and digits
ParseNumber(str) ==
    IF \E i \in DOMAIN str : str[i] = "."
    THEN LET point == CHOOSE i \in DOMAIN str : str[i] = "."
             whole == SubSeq(str, 1, point - 1)
             fraction == SubSeq(str, point + 1, Len(str))
         IN  F64(ParseDigits(whole) * Pow10(Len(fraction)) + ParseDigits(fraction),
                 Pow10(Len(fraction)))
    ELSE F64(ParseDigits(str), 1)

TokenPos(line, column) == <<line, column>>

Token(pos, token_type, lexeme) ==
    [pos |-> pos, token_type |-> token_type, lexeme |-> lexeme]

NumberExpr(token) ==
    [Expr |-> "Number", token |-> token,
     number |-> ParseNumber(run_on_str(token.lexeme))]
StringExpr(token) ==
    [Expr |-> "String", token |-> token, string |-> cut(token.lexeme, 1, 1)]
VarExpr(identifier) == [Expr |-> "Var", identifier |-> identifier]
BoolExpr(token, value) == [Expr |-> "Bool", token |-> token, value |-> value]
GroupExpr(inner) == [Expr |-> "Group", inner |-> inner]
PrefixExpr(operator, inner) ==
    [Expr |-> "Prefix", operator |-> operator, inner |-> inner]
InfixExpr(left, operator, right) ==
    [Expr |-> "Infix", left |-> left, operator |-> operator, right |-> right]
ListExpr(bracket_open, elements) ==
    [Expr |-> "List", bracket_open |-> bracket_open, elements |-> elements]
SubscriptExpr(subscriptee, bracket_open, index) ==
    [Expr |-> "Subscript", subscriptee |-> subscriptee,
     bracket_open |-> bracket_open, index |-> index]
CallExpr(callee, paren_open) ==
    [Expr |-> "Call", callee |-> callee, paren_open |-> paren_open]

PrintStmt(print_token, inner) ==
    [Stmt |-> "Print", print_token |-> print_token, inner |-> inner]
VarDeclStmt(var_token, identifier, init_expr) ==
    [Stmt |-> "VarDecl", var_token |-> var_token, identifier |-> identifier,
     init_expr |-> init_expr]
BlockStmt(brace_open, statements, brace_close) ==
    [Stmt |-> "Block", brace_open |-> brace_open, statements |-> statements,
     brace_close |-> brace_close]
\* else_token and else_clause are Options: <<>> is None, <<v>> is Some(v)
IfStmt(if_token, condition, then_clause, else_token, else_clause) ==
    [Stmt |-> "If", if_token |-> if_token, condition |-> condition,
     then_clause |-> then_clause, else_token |-> else_token,
     else_clause |-> else_clause]
WhileStmt(while_token, condition, block) ==
    [Stmt |-> "While", while_token |-> while_token, condition |-> condition,
     block |-> block]
ExprStmt(expr) == [Stmt |-> "ExprStmt", expr |-> expr]
FnDeclStmt(fn_token, name, body) ==
    [Stmt |-> "FnDecl", fn_token |-> fn_token, name |-> name, body |-> body]
StmtList(stmts) == [stmts |-> stmts]
ProgramStmt(statements, eof_token) ==
    [Stmt |-> "Program", statements |-> statements, eof_token |-> eof_token]

---------------------------------------------------------------------------
(* compiler/lexical_analysis/lexer.rs.  L is the lexer [source_string,     *)
(* start_index, current_index, start_pos, current_pos, keyword_atoms]; a   *)
(* character is one byte, and an Option<char> is <<>> for None and <<c>>   *)
(* for Some(c).  Each loop of the lexer is modelled one iteration at a     *)
(* time: a step operator returns the lexer and the place `at` where        *)
(* lex_token stands afterwards.                                            *)

Letters ==
    {"a", "b", "c", "t", "r", "u", "e", "f", "l", "s", "n", "i", "C", "h",
     "M", "d", "x", "y", "p", "w", "o"}

is_whitespace(c) == c \in {" ", "\n"}
is_ascii_digit(c) == \E i \in DOMAIN DigitChar : DigitChar[i] = c
is_alphabetic(c) == c \in Letters
is_alphanumeric(c) == is_alphabetic(c) \/ is_ascii_digit(c)

\* the keywords in the order KeywordAtoms::with_interner interns them
Keywords ==
    << <<"Let", <<"l", "e", "t">> >>,
       <<"Nil", <<"n", "i", "l">> >>,
       <<"If", <<"i", "f">> >>,
       <<"Else", <<"e", "l", "s", "e">> >>,
       <<"Print", <<"p", "r", "i", "n", "t">> >>,
       <<"True", <<"t", "r", "u", "e">> >>,
       <<"False", <<"f", "a", "l", "s", "e">> >>,
       <<"And", <<"a", "n", "d">> >>,
       <<"Or", <<"o", "r">> >>,
       <<"Not", <<"n", "o", "t">> >>,
       <<"While", <<"w", "h", "i", "l", "e">> >>,
       <<"Fn", <<"f", "n">> >> >>

\* KeywordAtoms::with_interner: [I, keyword_atoms], the atoms in the order
\* of Keywords
RECURSIVE with_interner(_, _)
with_interner(I, n) ==
    IF n = 0 THEN [I |-> I, keyword_atoms |-> <<>>]
    ELSE LET before == with_interner(I, n - 1)
             r == intern(before.I, Keywords[n][2])
         IN  [I |-> r.I, keyword_atoms |-> Append(before.keyword_atoms, r.atom)]

\* Lexer::new: [L, I]
Lexer_new(source_string, I) ==
    LET k == with_interner(I, Len(Keywords))
    IN  [L |-> [source_string |-> source_string,
                start_index |-> 0, current_index |-> 0,
                start_pos |-> TokenPos(1, 1), current_pos |-> TokenPos(1, 1),
                keyword_atoms |-> k.keyword_atoms],
         I |-> k.I]

peek_char(L) ==
    IF L.current_index < Len(L.source_string)
    THEN <<L.source_string[L.current_index + 1]>>
    ELSE <<>>

peek_next(L) ==
    IF L.current_index + 1 < Len(L.source_string)
    THEN <<L.source_string[L.current_index + 2]>>
    ELSE <<>>

\* advance: the lexer afterwards (the character it returns is peek_char
\* before)
advance(L) ==
    IF peek_char(L) = <<>> THEN L
    ELSE [L EXCEPT !.current_index = @ + 1,
                   !.current_pos = IF peek_char(L) = <<"\n">>
                                   THEN TokenPos(@[1] + 1, 1)
                                   ELSE TokenPos(@[1], @[2] + 1)]

check(L, expected) == peek_char(L) = <<expected>>

\* mmatch: the lexer afterwards; it has matched when check holds before
mmatch(L, expected) == IF check(L, expected) THEN advance(L) ELSE L

\* make_token: [I, token]
make_token(L, I, token_type) ==
    LET r == intern(I, SubSeq(L.source_string, L.start_index + 1,
                              L.current_index))
    IN  [I |-> r.I, token |-> Token(L.start_pos, token_type, r.atom)]

LexAt(L, at, comment_level, token_type) ==
    [L |-> L, at |-> at, comment_level |-> comment_level,
     token_type |-> token_type]

\* one iteration of the loop of skip_whitespace
skip_whitespace(L) ==
    LET c == peek_char(L)
    IN  IF c # <<>> /\ is_whitespace(c[1])
        THEN LexAt(advance(L), "skip_whitespace", 0, "")
        ELSE IF c = <<"#">>
        THEN LET L1 == advance(L)
             IN  IF check(L1, "/")
                 THEN LexAt(mmatch(L1, "/"), "block_comment", 1, "")
                 ELSE LexAt(L1, "line_comment", 0, "")
        ELSE LexAt(L, "scan", 0, "")

\* one iteration of `while comment_level > 0`
block_comment(L, comment_level) ==
    LET c == peek_char(L)
        L1 == advance(L)
        pc == peek_char(L1)
        level == IF c = <<"/">> /\ pc = <<"#">> THEN comment_level - 1
                 ELSE IF c = <<"#">> /\ pc = <<"/">> THEN comment_level + 1
                 ELSE comment_level
        L2 == IF level # comment_level THEN advance(L1) ELSE L1
    IN  IF c = <<>> \/ pc = <<>> THEN LexAt(L1, "skip_whitespace", 0, "")
        ELSE IF level > 0 THEN LexAt(L2, "block_comment", level, "")
        ELSE LexAt(L2, "skip_whitespace", 0, "")

\* one iteration of `while !self.mmatch('\n') && !self.peek_char().is_none()`
line_comment(L) ==
    IF check(L, "\n") THEN LexAt(mmatch(L, "\n"), "skip_whitespace", 0, "")
    ELSE IF peek_char(L) = <<>> THEN LexAt(L, "skip_whitespace", 0, "")
    ELSE LexAt(advance(L), "line_comment", 0, "")

\* the token of one character
SingleCharToken(c) ==
    CASE c = "(" -> "ParenOpen" [] c = ")" -> "ParenClose"
      [] c = "[" -> "BracketOpen" [] c = "]" -> "BracketClose"
      [] c = "{" -> "BraceOpen" [] c = "}" -> "BraceClose"
      [] c = "+" -> "Plus" [] c = "-" -> "Minus"
      [] c = "," -> "Comma" [] c = "%" -> "Percent"
      [] c = ";" -> "Semicolon"
      [] OTHER -> ""

\* lex_token from the end of skip_whitespace to the match on the first
\* character of the token
scan(L) ==
    LET L0 == [L EXCEPT !.start_index = L.current_index,
                        !.start_pos = L.current_pos]
        c == peek_char(L0)
        L1 == advance(L0)
        Second(expected, matched, otherwise) ==
            IF check(L1, expected)
            THEN LexAt(mmatch(L1, expected), "return", 0, matched)
            ELSE LexAt(L1, "return", 0, otherwise)
    IN  IF c = <<>> THEN LexAt(L1, "return", 0, "Eof")
        ELSE IF SingleCharToken(c[1]) # ""
        THEN LexAt(L1, "return", 0, SingleCharToken(c[1]))
        ELSE IF c[1] = "=" THEN Second("=", "DoubleEqual", "BadCharacter")
        ELSE IF c[1] = "\"" THEN LexAt(L1, "finish_string", 0, "")
        ELSE IF c[1] = "." THEN Second(".", "DoubleDot", "BadCharacter")
        ELSE IF c[1] = "*" THEN Second("*", "DoubleStar", "Star")
        ELSE IF c[1] = "/" THEN Second("/", "DoubleSlash", "Slash")
        ELSE IF c[1] = "<" THEN Second("=", "LessEqual", "Less")
        ELSE IF c[1] = ">" THEN Second("=", "GreaterEqual", "Greater")
        ELSE IF c[1] = ":" THEN Second("=", "ColonEqual", "BadCharacter")
        ELSE IF c[1] = "!" THEN Second("=", "BangEqual", "BadCharacter")
        ELSE IF is_ascii_digit(c[1]) THEN LexAt(L1, "finish_number", 0, "")
        ELSE IF is_alphabetic(c[1]) THEN LexAt(L1, "finish_identifier", 0, "")
        ELSE LexAt(L1, "return", 0, "BadCharacter")

\* one iteration of a loop of finish_number: of the first loop, with the
\* test for a fraction at its end, or of the loop over the fraction
finish_number(L, in_fraction) ==
    LET c == peek_char(L)
        n == peek_next(L)
    IN  IF c # <<>> /\ is_ascii_digit(c[1])
        THEN LexAt(advance(L),
                   IF in_fraction THEN "finish_fraction" ELSE "finish_number",
                   0, "")
        ELSE IF /\ ~in_fraction
                /\ c = <<".">> /\ n # <<>> /\ is_ascii_digit(n[1])
        THEN LexAt(advance(advance(L)), "finish_fraction", 0, "")
        ELSE LexAt(L, "return", 0, "Number")

\* one iteration of `while !self.mmatch('"') { self.advance(); }`
finish_string(L) ==
    IF check(L, "\"") THEN LexAt(mmatch(L, "\""), "return", 0, "String")
    ELSE LexAt(advance(L), "finish_string", 0, "")

\* one iteration of the loop of finish_identifier
finish_identifier(L) ==
    LET c == peek_char(L)
    IN  IF c # <<>> /\ (is_alphanumeric(c[1]) \/ c[1] = "_")
        THEN LexAt(advance(L), "finish_identifier", 0, "")
        ELSE LexAt(L, "return", 0, "Identifier")

\* the type finish_identifier gives a token by comparing its lexeme with
\* the atoms of the keywords, in their order
KeywordType(L, lexeme) ==
    IF \E i \in DOMAIN Keywords : Atom_eq(lexeme, L.keyword_atoms[i])
    THEN LET i == CHOOSE i \in DOMAIN Keywords :
                     /\ Atom_eq(lexeme, L.keyword_atoms[i])
                     /\ \A j \in 1..(i - 1) :
                            ~Atom_eq(lexeme, L.keyword_atoms[j])
         IN  Keywords[i][1]
    ELSE "Identifier"

---------------------------------------------------------------------------
(* compiler/syntactical_analysis/parser.rs.  The lexer's answers are the   *)
(* sequence toks, which ends with the Eof token; peek_token is toks[pos].  *)
(* A parse function returns [ok, val, pos, err]: Ok(val) or Err(err), and  *)
(* the position the parser has advanced to.  The nodes hold the fields     *)
(* the code generator reads.                                               *)

BLOCK_ENDINGS == {"BraceClose", "Eof"}
COMPARISON_OPERATORS ==
    {"DoubleEqual", "Less", "LessEqual", "Greater", "GreaterEqual", "BangEqual"}
PREFIX_OPERATORS == {"Not", "Minus"}

BadToken(message, token) ==
    [error |-> "BadToken", message |-> message, token |-> token]
ChainingComparisonOperator(operator) ==
    [error |-> "ChainingComparisonOperator", message |-> "", token |-> operator]
ChainingAssignmentOperator(operator) ==
    [error |-> "ChainingAssignmentOperator", message |-> "", token |-> operator]
\* unimplemented!() unwinds the parse with a panic
Unimplemented(token) ==
    [error |-> "panic", message |-> "not implemented", token |-> token]

ParseOk(val, pos) == [ok |-> TRUE, val |-> val, pos |-> pos, err |-> <<>>]
ParseErr(err, pos) == [ok |-> FALSE, val |-> <<>>, pos |-> pos, err |-> err]

\* the call of one parse function by another: Parse(fn, ...) is fn(...)
RECURSIVE Parse(_, _, _, _)

\* the ? operator: an Err is returned as it is, an Ok goes on with rest
Try(result, rest(_)) == IF ~result.ok THEN result ELSE rest(result)

\* lex_token keeps answering Eof once the source is used up
peek_token(toks, pos) == toks[IF pos <= Len(toks) THEN pos ELSE Len(toks)]
check_ttype(toks, pos, expected) == peek_token(toks, pos).token_type = expected
check_ttype_any(toks, pos, expected) ==
    peek_token(toks, pos).token_type \in expected

\* expect: Ok(the token) and advance, or BadToken of the token advanced over
expect(toks, pos, expected, message) ==
    IF check_ttype(toks, pos, expected)
    THEN ParseOk(peek_token(toks, pos), pos + 1)
    ELSE ParseErr(BadToken(message, peek_token(toks, pos)), pos + 1)


finish_group_expression(toks, pos) ==
    Try(Parse("parse_expression", toks, pos, <<>>), LAMBDA expr :
    Try(expect(toks, expr.pos, "ParenClose", "expected a closing parenthesis"),
        LAMBDA paren_close :
    ParseOk(GroupExpr(expr.val), paren_close.pos)))

\* the while loop of the multi-element list; elements so far in elements
list_elements_loop(toks, pos, elements) ==
    IF check_ttype(toks, pos, "Comma")
    THEN IF check_ttype(toks, pos + 1, "BracketClose")
         THEN ParseOk(elements, pos + 2)
         ELSE Try(Parse("parse_expression", toks, pos + 1, <<>>), LAMBDA elem :
              Parse("list_elements_loop", toks, elem.pos, Append(elements, elem.val)))
    ELSE Try(expect(toks, pos, "BracketClose", "expected ']' to terminate list"),
             LAMBDA bracket_close :
         ParseOk(elements, bracket_close.pos))

finish_list_expression(toks, pos, bracket_open) ==
    IF check_ttype(toks, pos, "BracketClose")
    THEN ParseOk(ListExpr(bracket_open, <<>>), pos + 1)
    ELSE Try(Parse("parse_expression", toks, pos, <<>>), LAMBDA first_elem :
         IF check_ttype(toks, first_elem.pos, "BracketClose")
         THEN ParseOk(ListExpr(bracket_open, <<first_elem.val>>),
                      first_elem.pos + 1)
         ELSE Try(Parse("list_elements_loop", toks, first_elem.pos, <<first_elem.val>>),
                  LAMBDA elements :
              ParseOk(ListExpr(bracket_open, elements.val), elements.pos)))

parse_atom(toks, pos) ==
    LET token == peek_token(toks, pos)
        type == token.token_type
    IN  CASE type = "Number" -> ParseOk(NumberExpr(token), pos + 1)
          [] type = "String" -> ParseOk(StringExpr(token), pos + 1)
          [] type = "True" -> ParseOk(BoolExpr(token, TRUE), pos + 1)
          [] type = "False" -> ParseOk(BoolExpr(token, FALSE), pos + 1)
          [] type = "Identifier" -> ParseOk(VarExpr(token), pos + 1)
          [] type = "Fn" -> ParseErr(Unimplemented(token), pos + 1)
          [] type = "ParenOpen" -> Parse("finish_group_expression", toks, pos + 1, <<>>)
          [] type = "BracketOpen" ->
                Parse("finish_list_expression", toks, pos + 1, token)
          [] OTHER ->
                ParseErr(BadToken("expected either a literal, a variable or (",
                                  token), pos + 1)

\* the arguments after the first one up to the closing parenthesis; the
\* nodes keep no argument list, so only the position is returned
call_arguments_loop(toks, pos) ==
    IF check_ttype(toks, pos, "Comma")
    THEN IF check_ttype(toks, pos + 1, "ParenClose")
         THEN ParseOk(<<>>, pos + 2)
         ELSE Try(Parse("parse_expression", toks, pos + 1, <<>>), LAMBDA arg :
              Parse("call_arguments_loop", toks, arg.pos, <<>>))
    ELSE Try(expect(toks, pos, "ParenClose",
                    "expected ')' to close argument list"),
             LAMBDA paren_close :
         ParseOk(<<>>, paren_close.pos))

\* the argument list of a call that is not empty
call_arguments(toks, pos) ==
    Try(Parse("parse_expression", toks, pos, <<>>), LAMBDA first_arg :
    IF check_ttype(toks, first_arg.pos, "ParenClose")
    THEN ParseOk(<<>>, first_arg.pos + 1)
    ELSE Parse("call_arguments_loop", toks, first_arg.pos, <<>>))

\* the postfix loop of parse_call, expr being the expression so far
parse_call_loop(toks, pos, expr) ==
    CASE check_ttype(toks, pos, "BracketOpen") ->
            Try(Parse("parse_expression", toks, pos + 1, <<>>), LAMBDA index :
            Try(expect(toks, index.pos, "BracketClose",
                       "expected ] to close subscript operator"),
                LAMBDA bracket_close :
            Parse("parse_call_loop", toks, bracket_close.pos,
                SubscriptExpr(expr, peek_token(toks, pos), index.val))))
      [] check_ttype(toks, pos, "ParenOpen") ->
            Try(IF check_ttype(toks, pos + 1, "ParenClose")
                THEN ParseOk(<<>>, pos + 2)
                ELSE Parse("call_arguments", toks, pos + 1, <<>>),
                LAMBDA args :
            Parse("parse_call_loop", toks, args.pos,
                            CallExpr(expr, peek_token(toks, pos))))
      [] OTHER -> ParseOk(expr, pos)

parse_call(toks, pos) ==
    Try(Parse("parse_atom", toks, pos, <<>>), LAMBDA expr :
    Parse("parse_call_loop", toks, expr.pos, expr.val))

parse_exponent(toks, pos) ==
    Try(Parse("parse_call", toks, pos, <<>>), LAMBDA expr :
    IF check_ttype(toks, expr.pos, "DoubleStar")
    THEN Try(Parse("parse_unary", toks, expr.pos + 1, <<>>), LAMBDA right :
         ParseOk(InfixExpr(expr.val, peek_token(toks, expr.pos), right.val),
                 right.pos))
    ELSE expr)

parse_unary(toks, pos) ==
    IF check_ttype_any(toks, pos, PREFIX_OPERATORS)
    THEN Try(Parse("parse_unary", toks, pos + 1, <<>>), LAMBDA inner :
         ParseOk(PrefixExpr(peek_token(toks, pos), inner.val), inner.pos))
    ELSE Parse("parse_exponent", toks, pos, <<>>)

\* the loop of a left-associative level: while the operator at pos is one
\* of the level's, the next operand is parsed and joined to expr
parse_multiplication_loop(toks, pos, expr) ==
    IF check_ttype_any(toks, pos, {"Star", "Slash", "DoubleSlash", "Percent"})
    THEN Try(Parse("parse_unary", toks, pos + 1, <<>>), LAMBDA right :
         Parse("parse_multiplication_loop", toks, right.pos,
             InfixExpr(expr, peek_token(toks, pos), right.val)))
    ELSE ParseOk(expr, pos)

parse_multiplication(toks, pos) ==
    Try(Parse("parse_unary", toks, pos, <<>>), LAMBDA expr :
    Parse("parse_multiplication_loop", toks, expr.pos, expr.val))

parse_addition_loop(toks, pos, expr) ==
    IF check_ttype_any(toks, pos, {"Plus", "Minus"})
    THEN Try(Parse("parse_multiplication", toks, pos + 1, <<>>), LAMBDA right :
         Parse("parse_addition_loop", toks, right.pos,
             InfixExpr(expr, peek_token(toks, pos), right.val)))
    ELSE ParseOk(expr, pos)

parse_addition(toks, pos) ==
    Try(Parse("parse_multiplication", toks, pos, <<>>), LAMBDA expr :
    Parse("parse_addition_loop", toks, expr.pos, expr.val))

parse_concatenation_loop(toks, pos, expr) ==
    IF check_ttype(toks, pos, "DoubleDot")
    THEN Try(Parse("parse_addition", toks, pos + 1, <<>>), LAMBDA right :
         Parse("parse_concatenation_loop", toks, right.pos,
             InfixExpr(expr, peek_token(toks, pos), right.val)))
    ELSE ParseOk(expr, pos)

parse_concatenation(toks, pos) ==
    Try(Parse("parse_addition", toks, pos, <<>>), LAMBDA expr :
    Parse("parse_concatenation_loop", toks, expr.pos, expr.val))

\* parse_comparison without the chaining guard
parse_comparison_NoGuard(toks, pos) ==
    Try(Parse("parse_concatenation", toks, pos, <<>>), LAMBDA expr :
    IF check_ttype_any(toks, expr.pos, COMPARISON_OPERATORS)
    THEN Try(Parse("parse_concatenation", toks, expr.pos + 1, <<>>), LAMBDA right_expr :
         ParseOk(InfixExpr(expr.val, peek_token(toks, expr.pos),
                           right_expr.val), right_expr.pos))
    ELSE expr)

parse_comparison(toks, pos) ==
    Try(Parse("parse_concatenation", toks, pos, <<>>), LAMBDA expr :
    IF check_ttype_any(toks, expr.pos, COMPARISON_OPERATORS)
    THEN Try(Parse("parse_concatenation", toks, expr.pos + 1, <<>>), LAMBDA right_expr :
         IF check_ttype_any(toks, right_expr.pos, COMPARISON_OPERATORS)
         THEN ParseErr(ChainingComparisonOperator(
                           peek_token(toks, right_expr.pos)),
                       right_expr.pos + 1)
         ELSE ParseOk(InfixExpr(expr.val, peek_token(toks, expr.pos),
                                right_expr.val), right_expr.pos))
    ELSE expr)

parse_or_loop(toks, pos, expr) ==
    IF check_ttype(toks, pos, "Or")
    THEN Try(Parse("parse_comparison", toks, pos + 1, <<>>), LAMBDA right :
         Parse("parse_or_loop", toks, right.pos,
             InfixExpr(expr, peek_token(toks, pos), right.val)))
    ELSE ParseOk(expr, pos)

parse_or(toks, pos) ==
    Try(Parse("parse_comparison", toks, pos, <<>>), LAMBDA expr :
    Parse("parse_or_loop", toks, expr.pos, expr.val))

parse_and_loop(toks, pos, expr) ==
    IF check_ttype(toks, pos, "And")
    THEN Try(Parse("parse_or", toks, pos + 1, <<>>), LAMBDA right :
         Parse("parse_and_loop", toks, right.pos,
             InfixExpr(expr, peek_token(toks, pos), right.val)))
    ELSE ParseOk(expr, pos)

parse_and(toks, pos) ==
    Try(Parse("parse_or", toks, pos, <<>>), LAMBDA expr :
    Parse("parse_and_loop", toks, expr.pos, expr.val))

parse_assignment(toks, pos) ==
    Try(Parse("parse_and", toks, pos, <<>>), LAMBDA expr :
    IF check_ttype(toks, expr.pos, "ColonEqual")
    THEN Try(Parse("parse_and", toks, expr.pos + 1, <<>>), LAMBDA right_expr :
         IF check_ttype(toks, right_expr.pos, "ColonEqual")
         THEN ParseErr(ChainingAssignmentOperator(
                           peek_token(toks, right_expr.pos)),
                       right_expr.pos + 1)
         ELSE ParseOk(InfixExpr(expr.val, peek_token(toks, expr.pos),
                                right_expr.val), right_expr.pos))
    ELSE expr)

parse_expression(toks, pos) == Parse("parse_assignment", toks, pos, <<>>)

finish_var_decl_statement(toks, pos, var_token) ==
    Try(expect(toks, pos, "Identifier",
               "expected identifier after variable declaration"),
        LAMBDA ident :
    Try(expect(toks, ident.pos, "ColonEqual", "expected := after variable name"),
        LAMBDA assignment_operator :
    Try(Parse("parse_expression", toks, assignment_operator.pos, <<>>), LAMBDA expr :
    ParseOk(VarDeclStmt(var_token, ident.val, expr.val), expr.pos))))

finish_print_statement(toks, pos, print_token) ==
    Try(Parse("parse_expression", toks, pos, <<>>), LAMBDA expr :
    ParseOk(PrintStmt(print_token, expr.val), expr.pos))

\* Option<Expr>: <<>> is None, <<e>> is Some(e)
ReturnStmt(return_token, expr) ==
    [Stmt |-> "Return", return_token |-> return_token, expr |-> expr]

finish_return_statement(toks, pos, return_token) ==
    IF check_ttype_any(toks, pos, BLOCK_ENDINGS)
    THEN ParseOk(ReturnStmt(return_token, <<>>), pos)
    ELSE Try(Parse("parse_expression", toks, pos, <<>>), LAMBDA expr :
         ParseOk(ReturnStmt(return_token, <<expr.val>>), expr.pos))

\* the while loop of parse_statement_list, stmts being the statements so far
statement_list_loop(toks, pos, stmts) ==
    IF check_ttype_any(toks, pos, BLOCK_ENDINGS)
    THEN ParseOk(StmtList(stmts), pos)
    ELSE Try(Parse("parse_statement", toks, pos, <<>>), LAMBDA stmt :
         Parse("statement_list_loop", toks, stmt.pos, Append(stmts, stmt.val)))

parse_statement_list(toks, pos) ==
    Try(Parse("parse_statement", toks, pos, <<>>), LAMBDA first :
    Parse("statement_list_loop", toks, first.pos, <<first.val>>))

finish_block_stmt(toks, pos, brace_open) ==
    Try(Parse("parse_statement_list", toks, pos, <<>>), LAMBDA content :
    Try(expect(toks, content.pos, "BraceClose", "expected '}' to close block"),
        LAMBDA brace_close :
    ParseOk(BlockStmt(brace_open, content.val, brace_close.val),
            brace_close.pos)))

\* `{` and the block it opens
expect_block(toks, pos, message) ==
    Try(expect(toks, pos, "BraceOpen", message), LAMBDA brace_open :
    Parse("finish_block_stmt", toks, brace_open.pos, brace_open.val))

finish_if_stmt(toks, pos, if_token) ==
    Try(Parse("parse_expression", toks, pos, <<>>), LAMBDA condition :
    Try(Parse("expect_block", toks, condition.pos, "expected '{' after if-condition"),
        LAMBDA then_block :
    IF check_ttype(toks, then_block.pos, "Else")
    THEN Try(IF check_ttype(toks, then_block.pos + 1, "If")
             THEN Parse("finish_if_stmt", toks, then_block.pos + 2,
                                 peek_token(toks, then_block.pos + 1))
             ELSE Parse("expect_block", toks, then_block.pos + 1,
                               "expected '{' after else"),
             LAMBDA else_block :
         ParseOk(IfStmt(if_token, condition.val, then_block.val,
                        <<peek_token(toks, then_block.pos)>>,
                        <<else_block.val>>),
                 else_block.pos))
    ELSE ParseOk(IfStmt(if_token, condition.val, then_block.val, <<>>, <<>>),
                 then_block.pos)))

finish_while_stmt(toks, pos, while_token) ==
    Try(Parse("parse_expression", toks, pos, <<>>), LAMBDA condition :
    Try(Parse("expect_block", toks, condition.pos,
                     "expected '{' after condition in while statement"),
        LAMBDA while_body :
    ParseOk(WhileStmt(while_token, condition.val, while_body.val),
            while_body.pos)))

\* the loop over the parameter names; the node keeps no parameter list
RECURSIVE parameters_loop(_, _)
parameters_loop(toks, pos) ==
    IF check_ttype(toks, pos, "ParenClose") THEN ParseOk(<<>>, pos)
    ELSE Try(expect(toks, pos, "Identifier", "expected paramater name"),
             LAMBDA parameter :
         IF check_ttype(toks, parameter.pos, "Comma")
         THEN parameters_loop(toks, parameter.pos + 1)
         ELSE ParseOk(<<>>, parameter.pos))

finish_fn_decl_stmt(toks, pos, fn_token) ==
    Try(expect(toks, pos, "Identifier",
               "expected function name after 'fn' in statement"),
        LAMBDA identifier :
    Try(expect(toks, identifier.pos, "ParenOpen",
               "expected '(' after function name"),
        LAMBDA paren_open :
    Try(parameters_loop(toks, paren_open.pos), LAMBDA parameters :
    Try(expect(toks, parameters.pos, "ParenClose",
               "expected ')' after parameter list"),
        LAMBDA paren_close :
    Try(Parse("expect_block", toks, paren_close.pos, "expected function body"),
        LAMBDA fn_body :
    ParseOk(FnDeclStmt(fn_token, identifier.val, fn_body.val),
            fn_body.pos))))))

\* eat optional semicolons
RECURSIVE eat_semicolons(_, _)
eat_semicolons(toks, pos) ==
    IF check_ttype(toks, pos, "Semicolon") THEN eat_semicolons(toks, pos + 1)
    ELSE pos

expression_statement(toks, pos) ==
    Try(Parse("parse_expression", toks, pos, <<>>), LAMBDA expr :
    ParseOk(ExprStmt(expr.val), expr.pos))

parse_statement(toks, pos) ==
    Try(CASE check_ttype(toks, pos, "Let") ->
                Parse("finish_var_decl_statement", toks, pos + 1, peek_token(toks, pos))
          [] check_ttype(toks, pos, "Print") ->
                Parse("finish_print_statement", toks, pos + 1, peek_token(toks, pos))
          [] check_ttype(toks, pos, "BraceOpen") ->
                Parse("finish_block_stmt", toks, pos + 1, peek_token(toks, pos))
          [] check_ttype(toks, pos, "If") ->
                Parse("finish_if_stmt", toks, pos + 1, peek_token(toks, pos))
          [] check_ttype(toks, pos, "While") ->
                Parse("finish_while_stmt", toks, pos + 1, peek_token(toks, pos))
          [] check_ttype(toks, pos, "Fn") ->
                Parse("finish_fn_decl_stmt", toks, pos + 1, peek_token(toks, pos))
          [] check_ttype(toks, pos, "Return") ->
                Parse("finish_return_statement", toks, pos + 1, peek_token(toks, pos))
          [] OTHER -> Parse("expression_statement", toks, pos, <<>>),
        LAMBDA node :
    ParseOk(node.val, eat_semicolons(toks, node.pos)))

parse_program(toks, pos) ==
    Try(Parse("parse_statement_list", toks, pos, <<>>), LAMBDA exprs :
    Try(expect(toks, exprs.pos, "Eof", "The program should end here"),
        LAMBDA eof :
    ParseOk(ProgramStmt(exprs.val, eof.val), eof.pos)))

Parse(fn, toks, pos, arg) ==
    CASE fn = "finish_group_expression" -> finish_group_expression(toks, pos)
      [] fn = "parse_atom" -> parse_atom(toks, pos)
      [] fn = "call_arguments_loop" -> call_arguments_loop(toks, pos)
      [] fn = "call_arguments" -> call_arguments(toks, pos)
      [] fn = "parse_call" -> parse_call(toks, pos)
      [] fn = "parse_exponent" -> parse_exponent(toks, pos)
      [] fn = "parse_unary" -> parse_unary(toks, pos)
      [] fn = "parse_multiplication" -> parse_multiplication(toks, pos)
      [] fn = "parse_addition" -> parse_addition(toks, pos)
      [] fn = "parse_concatenation" -> parse_concatenation(toks, pos)
      [] fn = "parse_comparison" -> parse_comparison(toks, pos)
      [] fn = "parse_or" -> parse_or(toks, pos)
      [] fn = "parse_and" -> parse_and(toks, pos)
      [] fn = "parse_assignment" -> parse_assignment(toks, pos)
      [] fn = "parse_expression" -> parse_expression(toks, pos)
      [] fn = "parse_statement_list" -> parse_statement_list(toks, pos)
      [] fn = "parse_statement" -> parse_statement(toks, pos)
      [] fn = "parse_program" -> parse_program(toks, pos)
      [] fn = "expression_statement" -> expression_statement(toks, pos)
      [] fn = "list_elements_loop" -> list_elements_loop(toks, pos, arg)
      [] fn = "finish_list_expression" -> finish_list_expression(toks, pos, arg)
      [] fn = "parse_call_loop" -> parse_call_loop(toks, pos, arg)
      [] fn = "parse_multiplication_loop" -> parse_multiplication_loop(toks, pos, arg)
      [] fn = "parse_addition_loop" -> parse_addition_loop(toks, pos, arg)
      [] fn = "parse_concatenation_loop" -> parse_concatenation_loop(toks, pos, arg)
      [] fn = "parse_or_loop" -> parse_or_loop(toks, pos, arg)
      [] fn = "parse_and_loop" -> parse_and_loop(toks, pos, arg)
      [] fn = "finish_var_decl_statement" -> finish_var_decl_statement(toks, pos, arg)
      [] fn = "finish_print_statement" -> finish_print_statement(toks, pos, arg)
      [] fn = "finish_return_statement" -> finish_return_statement(toks, pos, arg)
      [] fn = "statement_list_loop" -> statement_list_loop(toks, pos, arg)
      [] fn = "finish_block_stmt" -> finish_block_stmt(toks, pos, arg)
      [] fn = "expect_block" -> expect_block(toks, pos, arg)
      [] fn = "finish_if_stmt" -> finish_if_stmt(toks, pos, arg)
      [] fn = "finish_while_stmt" -> finish_while_stmt(toks, pos, arg)
      [] fn = "finish_fn_decl_stmt" -> finish_fn_decl_stmt(toks, pos, arg)

\* Parser::parse_program on the parser at position pos
ParserParseProgram(toks, pos) == Parse("parse_program", toks, pos, <<>>)

---------------------------------------------------------------------------
(* The programs explored: every sequence of 1..MaxStmts statements, the   *)
(* statement on line L being one of StmtsAt(L).  Statement lists are      *)
(* never empty (parse_statement_list reads at least one statement).       *)

AtomX == Atom(0, 1)
AtomY == Atom(1, 2)
Atom1 == Atom(2, 3)
Atom2 == Atom(3, 4)
Atom300 == Atom(4, 7)
AtomQuotedA == Atom(7, 10)
Atom0 == Atom(10, 11)
AtomHalf == Atom(11, 14)
AtomOnePointZero == Atom(14, 17)
\* keywords and punctuation: the code generator never reads their lexeme
NoLexeme == Atom(0, 0)

Tk(L, c, token_type) == Token(TokenPos(L, c), token_type, NoLexeme)
Ident(L, c, atom) == Token(TokenPos(L, c), "Identifier", atom)
X(L, c) == VarExpr(Ident(L, c, AtomX))
Y(L, c) == VarExpr(Ident(L, c, AtomY))
Num(L, c, atom) == NumberExpr(Token(TokenPos(L, c), "Number", atom))
StrA(L, c) == StringExpr(Token(TokenPos(L, c), "String", AtomQuotedA))
Let(L, c, atom, init_expr) ==
    VarDeclStmt(Tk(L, c, "Let"), Ident(L, c + 1, atom), init_expr)
Assign(L, c, target, source) ==
    InfixExpr(target, Tk(L, c + 1, "ColonEqual"), source)
Block(L, c, statements) ==
    BlockStmt(Tk(L, c, "BraceOpen"), StmtList(statements),
              Tk(L, c + 9, "BraceClose"))
\* print list[index]
PrintSubscript(L, list, index) ==
    PrintStmt(Tk(L, 1, "Print"),
              SubscriptExpr(list, Tk(L, 5, "BracketOpen"), index))
\* [2]
ListOf2(L) == ListExpr(Tk(L, 2, "BracketOpen"), <<Num(L, 3, Atom2)>>)

StmtsAt(L) ==
    { \* let x := 1
      Let(L, 1, AtomX, Num(L, 3, Atom1)),
      \* let x := "a"
      Let(L, 1, AtomX, StrA(L, 3)),
      \* let y := x
      Let(L, 1, AtomY, X(L, 3)),
      \* x := x + 1
      ExprStmt(Assign(L, 1, X(L, 1),
                      InfixExpr(X(L, 3), Tk(L, 4, "Plus"), Num(L, 5, Atom1)))),
      \* print x
      PrintStmt(Tk(L, 1, "Print"), X(L, 2)),
      \* { let y := x  { let x := 2  x := x + 1 }  print x }
      Block(L, 1,
            << Let(L, 2, AtomY, X(L, 4)),
               Block(L, 5, << Let(L, 6, AtomX, Num(L, 8, Atom2)),
                              ExprStmt(Assign(L, 9, X(L, 9),
                                  InfixExpr(X(L, 11), Tk(L, 12, "Plus"),
                                            Num(L, 13, Atom1)))) >>),
               PrintStmt(Tk(L, 15, "Print"), X(L, 16)) >>),
      \* if x < 2 { x := 2 } else { print x }
      IfStmt(Tk(L, 1, "If"),
             InfixExpr(X(L, 2), Tk(L, 3, "Less"), Num(L, 4, Atom2)),
             Block(L, 5, <<ExprStmt(Assign(L, 6, X(L, 6), Num(L, 8, Atom2)))>>),
             <<Tk(L, 15, "Else")>>,
             <<Block(L, 16, <<PrintStmt(Tk(L, 17, "Print"), X(L, 18))>>)>>),
      \* if true { let y := 2 }
      IfStmt(Tk(L, 1, "If"),
             BoolExpr(Tk(L, 2, "True"), TRUE),
             Block(L, 3, <<Let(L, 4, AtomY, Num(L, 6, Atom2))>>),
             <<>>, <<>>),
      \* while x < 2 { x := x + 1 }
      WhileStmt(Tk(L, 1, "While"),
                InfixExpr(X(L, 2), Tk(L, 3, "Less"), Num(L, 4, Atom2)),
                Block(L, 5, <<ExprStmt(Assign(L, 6, X(L, 6),
                                  InfixExpr(X(L, 8), Tk(L, 9, "Plus"),
                                            Num(L, 10, Atom1))))>>)),
      \* print "a" .. x
      PrintStmt(Tk(L, 1, "Print"),
                InfixExpr(StrA(L, 2), Tk(L, 3, "DoubleDot"), X(L, 4))),
      \* let y := [x, "a" .. 1]
      Let(L, 1, AtomY,
          ListExpr(Tk(L, 3, "BracketOpen"),
                   << X(L, 4),
                      InfixExpr(StrA(L, 5), Tk(L, 6, "DoubleDot"),
                                Num(L, 7, Atom1)) >>)),
      \* print y[1]
      PrintStmt(Tk(L, 1, "Print"),
                SubscriptExpr(Y(L, 2), Tk(L, 3, "BracketOpen"), Num(L, 4, Atom1))),
      \* 1 := 2
      ExprStmt(Assign(L, 1, Num(L, 1, Atom1), Num(L, 3, Atom2))),
      \* x()
      ExprStmt(CallExpr(X(L, 1), Tk(L, 2, "ParenOpen"))),
      \* fn x() { print 1 }
      FnDeclStmt(Tk(L, 1, "Fn"), Ident(L, 2, AtomX),
                 Block(L, 5, <<PrintStmt(Tk(L, 6, "Print"), Num(L, 7, Atom1))>>)),
      \* print -(x)
      PrintStmt(Tk(L, 1, "Print"),
                PrefixExpr(Tk(L, 2, "Minus"), GroupExpr(X(L, 4)))),
      \* print 300
      PrintStmt(Tk(L, 1, "Print"), Num(L, 2, Atom300)),
      \* while false { print 1 }
      WhileStmt(Tk(L, 1, "While"),
                BoolExpr(Tk(L, 2, "False"), FALSE),
                Block(L, 3, <<PrintStmt(Tk(L, 4, "Print"), Num(L, 5, Atom1))>>)),
      \* while x < 2 { let y := x  x := y + 1 }
      WhileStmt(Tk(L, 1, "While"),
                InfixExpr(X(L, 2), Tk(L, 3, "Less"), Num(L, 4, Atom2)),
                Block(L, 5, << Let(L, 6, AtomY, X(L, 8)),
                               ExprStmt(Assign(L, 9, X(L, 9),
                                   InfixExpr(Y(L, 11), Tk(L, 12, "Plus"),
                                             Num(L, 13, Atom1)))) >>)),
      \* print 1 * true
      PrintStmt(Tk(L, 1, "Print"),
                InfixExpr(Num(L, 2, Atom1), Tk(L, 3, "Star"),
                          BoolExpr(Tk(L, 4, "True"), TRUE))),
      \* print [2, x][x]
      PrintSubscript(L, ListExpr(Tk(L, 2, "BracketOpen"),
                                 <<Num(L, 3, Atom2), X(L, 4)>>),
                     X(L, 6)),
      \* print [2][0 / 0]
      PrintSubscript(L, ListOf2(L),
                     InfixExpr(Num(L, 6, Atom0), Tk(L, 7, "Slash"),
                               Num(L, 8, Atom0))),
      \* print x[0]
      PrintSubscript(L, X(L, 2), Num(L, 6, Atom0)),
      \* print [2][0 - x]
      PrintSubscript(L, ListOf2(L),
                     InfixExpr(Num(L, 6, Atom0), Tk(L, 7, "Minus"), X(L, 8))),
      \* print [2][x / 2]
      PrintSubscript(L, ListOf2(L),
                     InfixExpr(X(L, 6), Tk(L, 7, "Slash"), Num(L, 8, Atom2))),
      \* print 2 % x
      PrintStmt(Tk(L, 1, "Print"),
                InfixExpr(Num(L, 2, Atom2), Tk(L, 3, "Percent"), X(L, 4))),
      \* print [1] == [1]
      PrintStmt(Tk(L, 1, "Print"),
                InfixExpr(ListExpr(Tk(L, 2, "BracketOpen"), <<Num(L, 3, Atom1)>>),
                          Tk(L, 5, "DoubleEqual"),
                          ListExpr(Tk(L, 6, "BracketOpen"),
                                   <<Num(L, 7, Atom1)>>))),
      \* print 0.5 + 1.0
      PrintStmt(Tk(L, 1, "Print"),
                InfixExpr(Num(L, 2, AtomHalf), Tk(L, 3, "Plus"),
                          Num(L, 4, AtomOnePointZero))),
      \* { { let y := 2  y := 2 }  let y := 1  print y }
      Block(L, 1,
            << Block(L, 2, << Let(L, 3, AtomY, Num(L, 5, Atom2)),
                              ExprStmt(Assign(L, 6, Y(L, 6),
                                              Num(L, 8, Atom2))) >>),
               Let(L, 12, AtomY, Num(L, 14, Atom1)),
               PrintStmt(Tk(L, 15, "Print"), Y(L, 16)) >>),
      \* print [1 <= 2, 2 > 1, 1 >= 2]
      PrintStmt(Tk(L, 1, "Print"),
                ListExpr(Tk(L, 2, "BracketOpen"),
                         << InfixExpr(Num(L, 3, Atom1), Tk(L, 4, "LessEqual"),
                                      Num(L, 5, Atom2)),
                            InfixExpr(Num(L, 6, Atom2), Tk(L, 7, "Greater"),
                                      Num(L, 8, Atom1)),
                            InfixExpr(Num(L, 9, Atom1), Tk(L, 10, "GreaterEqual"),
                                      Num(L, 11, Atom2)) >>)),
      \* print 1 != 2
      PrintStmt(Tk(L, 1, "Print"),
                InfixExpr(Num(L, 2, Atom1), Tk(L, 3, "BangEqual"),
                          Num(L, 4, Atom2))) }

RECURSIVE StmtLists(_)
\* the statement lists of n lines
StmtLists(n) ==
    IF n = 0 THEN {<<>>}
    ELSE {Append(l, s) : l \in StmtLists(n - 1), s \in StmtsAt(n)}

Programs ==
    {ProgramStmt(StmtList(l), Tk(Len(l) + 1, 1, "Eof")) :
        l \in UNION {StmtLists(n) : n \in 1..MaxStmts}}

---------------------------------------------------------------------------
(* executable/instructions.rs and the byte encodings *)

\* enum Instruction, in declaration order: `instruction as u8` is the
\* position in it, counted from 0
Instruction ==
    <<"Negate", "Not", "Add", "Mul", "Sub", "Div", "Modulo", "Concat",
      "LessThan", "GreaterThan", "LessThanOrEqual", "GreaterThanOrEqual",
      "Equal", "CreateList", "CreateListWithCap", "CreateListWithCapW",
      "ListPush", "ListGetIndex", "LoadTrue", "LoadFalse", "LoadNil",
      "LoadStringLiteral", "LoadLitNum", "LoadConstNum", "LoadConstNumW",
      "LoadConstNumWW", "SetLocal", "SetLocalW", "GetLocal", "GetLocalW",
      "LoadFunction", "Invoke", "Return", "LoadReturnAdress", "Dup", "Pop",
      "Print", "Jump", "JumpIfFalse">>

as_u8(instruction) ==
    (CHOOSE i \in DOMAIN Instruction : Instruction[i] = instruction) - 1

U8_MAX == 255
U16_MAX == 65535

\* to_le_bytes of an unsigned integer of the given width in bytes
RECURSIVE to_le_bytes(_, _)
to_le_bytes(n, width) ==
    IF width = 0 THEN <<>>
    ELSE <<n % 256>> \o to_le_bytes(n \div 256, width - 1)

\* from_le_bytes
RECURSIVE from_le_bytes(_)
from_le_bytes(bytes) ==
    IF bytes = <<>> THEN 0
    ELSE bytes[1] + 256 * from_le_bytes(Tail(bytes))

---------------------------------------------------------------------------
(* compiler/codegen/codegenerator.rs.  G is the generator               *)
(* [code, code_map, current_source_position, locals, scope_level,       *)
(*  num_consts, num_consts_map, string_data, string_data_map,           *)
(*  functions, status, error].                                          *)

Gen ==
    [code |-> code, code_map |-> code_map,
     current_source_position |-> current_source_position,
     locals |-> locals, scope_level |-> scope_level,
     num_consts |-> num_consts, num_consts_map |-> num_consts_map,
     string_data |-> string_data, string_data_map |-> string_data_map,
     functions |-> functions, status |-> cg_status, error |-> cg_error]

\* gen_executable's empty tables and CodeGenerator::new
CodeGenerator_new ==
    [code |-> <<>>, code_map |-> <<>>,
     current_source_position |-> TokenPos(1, 1),
     locals |-> <<>>, scope_level |-> 0,
     num_consts |-> <<>>, num_consts_map |-> <<>>,
     string_data |-> <<>>, string_data_map |-> <<>>,
     functions |-> <<>>, status |-> "ok", error |-> <<>>]

\* the generator becomes the next state
BecomesGen(G) ==
    /\ code' = G.code
    /\ code_map' = G.code_map
    /\ current_source_position' = G.current_source_position
    /\ locals' = G.locals
    /\ scope_level' = G.scope_level
    /\ num_consts' = G.num_consts
    /\ num_consts_map' = G.num_consts_map
    /\ string_data' = G.string_data
    /\ string_data_map' = G.string_data_map
    /\ functions' = G.functions
    /\ cg_status' = G.status
    /\ cg_error' = G.error

\* an Err(CodeGenError) returned through every `?`
Failed(G, err) == [G EXCEPT !.status = "err", !.error = err]
\* unimplemented!, panic!, a failed assert!, an arithmetic overflow
GenPanicked(G, why) == [G EXCEPT !.status = "panic", !.error = [panic |-> why]]

UnresolvedVariable(var_token) ==
    [type |-> "UnresolvedVariable", var_token |-> var_token]
InvalidAssignmentTarget(message) ==
    [type |-> "InvalidAssignmentTarget", message |-> message]

\* a Local: name is an Option<StringAtom>
Local(name, level) == [name |-> name, scope_level |-> level]

set_source_pos(G, pos) == [G EXCEPT !.current_source_position = pos]

\* emit_byte that forgets the position of the byte
emit_byte_NoPosition(G, byte) == [G EXCEPT !.code = Append(@, byte)]

emit_byte(G, byte) ==
    [G EXCEPT !.code = Append(@, byte),
              !.code_map = Append(@, G.current_source_position)]

RECURSIVE emit_bytes(_, _)
emit_bytes(G, bytes) ==
    IF bytes = <<>> THEN G
    ELSE emit_bytes(emit_byte(G, bytes[1]), Tail(bytes))

emit_instruction(G, instruction) == emit_byte(G, as_u8(instruction))

begin_scope(G) == [G EXCEPT !.scope_level = @ + 1]

\* the while loop of end_scope
RECURSIVE EndScopePops(_)
EndScopePops(G) ==
    IF G.locals # <<>> /\ Last(G.locals).scope_level > G.scope_level
    THEN EndScopePops([emit_instruction(G, "Pop") EXCEPT !.locals = Front(@)])
    ELSE G

\* end_scope that forgets the locals of the scope without popping them
end_scope_EmitsNoPop(G) ==
    IF G.scope_level = 0 THEN GenPanicked(G, "attempt to subtract with overflow")
    ELSE [G EXCEPT !.scope_level = @ - 1,
                   !.locals = SubSeq(@, 1, Cardinality(
                                  {i \in DOMAIN @ : @[i].scope_level < G.scope_level}))]

\* end_scope that leaves the table of locals as it is
end_scope_KeepsLocals(G) ==
    IF G.scope_level = 0 THEN GenPanicked(G, "attempt to subtract with overflow")
    ELSE [G EXCEPT !.scope_level = @ - 1]

end_scope(G) ==
    IF G.scope_level = 0 THEN GenPanicked(G, "attempt to subtract with overflow")
    ELSE EndScopePops([G EXCEPT !.scope_level = @ - 1])

declare_anonymous_local(G) ==
    [G EXCEPT !.locals = Append(@, Local(<<>>, G.scope_level))]

declare_local(G, name) ==
    [G EXCEPT !.locals = Append(@, Local(<<name>>, G.scope_level))]

\* the indexes (from 0) of the named locals called name
NamedLocals(G, name) ==
    {i - 1 : i \in {j \in DOMAIN G.locals :
                      G.locals[j].name # <<>> /\ G.locals[j].name[1] = name}}

\* get_local_index that searches from the front of the table
get_local_index_FromFront(G, name) ==
    IF NamedLocals(G, name) = {} THEN <<>>
    ELSE <<CHOOSE i \in NamedLocals(G, name) :
              \A j \in NamedLocals(G, name) : i <= j>>

\* get_local_index: the last named local called name, as an Option
get_local_index(G, name) ==
    IF NamedLocals(G, name) = {} THEN <<>>
    ELSE <<CHOOSE i \in NamedLocals(G, name) :
              \A j \in NamedLocals(G, name) : j <= i>>

\* get_local_index_by_token: [G, index], G failed when there is no index
get_local_index_by_token(G, identifier) ==
    LET found == get_local_index(G, identifier.lexeme)
    IN  IF found # <<>> THEN [G |-> G, index |-> found[1]]
        ELSE [G |-> Failed(G, UnresolvedVariable(identifier)), index |-> 0]

emit_load_num_lit_instruction(G, num) ==
    emit_byte(emit_instruction(G, "LoadLitNum"), num)

emit_get_local_instruction(G, index) ==
    IF index <= U8_MAX
    THEN emit_byte(emit_instruction(G, "GetLocal"), index)
    ELSE IF index > U16_MAX THEN GenPanicked(G, "Too many locals!")
    ELSE emit_bytes(emit_instruction(G, "GetLocalW"), to_le_bytes(index, 2))

emit_set_local_instruction(G, index) ==
    IF index < U8_MAX
    THEN emit_byte(emit_instruction(G, "SetLocal"), index)
    ELSE IF index > U16_MAX THEN GenPanicked(G, "Too many locals!")
    ELSE emit_bytes(emit_instruction(G, "SetLocalW"), to_le_bytes(index, 2))

\* emit_load_number_instruction that gives every occurrence of a literal a
\* constant of its own
emit_load_number_instruction_NoReuse(G, number, lexeme) ==
    IF /\ f64_le(VNumber(0), number) /\ f64_le(number, VNumber(U8_MAX))
       /\ f64_is_whole(number)
    THEN emit_load_num_lit_instruction(G, as_usize(number))
    ELSE LET index == Len(G.num_consts)
             G1 == [G EXCEPT !.num_consts = Append(@, number),
                             !.num_consts_map = (lexeme :> index) @@ @]
         IN  IF index <= U8_MAX
             THEN emit_byte(emit_instruction(G1, "LoadConstNum"), index)
             ELSE IF index <= U16_MAX
             THEN emit_bytes(emit_instruction(G1, "LoadConstNumW"),
                             to_le_bytes(index, 2))
             ELSE emit_bytes(emit_instruction(G1, "LoadConstNumWW"),
                             to_le_bytes(index, 4))

emit_load_number_instruction(G, number, lexeme) ==
    IF /\ f64_le(VNumber(0), number) /\ f64_le(number, VNumber(U8_MAX))
       /\ f64_is_whole(number)
    THEN emit_load_num_lit_instruction(G, as_usize(number))
    ELSE LET vacant == lexeme \notin DOMAIN G.num_consts_map
             index == IF vacant THEN Len(G.num_consts)
                      ELSE G.num_consts_map[lexeme]
             G1 == IF vacant
                   THEN [G EXCEPT !.num_consts = Append(@, number),
                                  !.num_consts_map = (lexeme :> index) @@ @]
                   ELSE G
         IN  IF index <= U8_MAX
             THEN emit_byte(emit_instruction(G1, "LoadConstNum"), index)
             ELSE IF index <= U16_MAX
             THEN emit_bytes(emit_instruction(G1, "LoadConstNumW"),
                             to_le_bytes(index, 2))
             ELSE emit_bytes(emit_instruction(G1, "LoadConstNumWW"),
                             to_le_bytes(index, 4))

\* add_string_slice: [G, slice]
add_string_slice(G, string) ==
    [G |-> [G EXCEPT !.string_data = @ \o string],
     slice |-> <<Len(G.string_data), Len(G.string_data) + Len(string)>>]

\* add_string that appends the content at every occurrence
add_string_AlwaysAppends(G, string) ==
    LET start_index == Len(G.string_data)
        end_index == start_index + Len(run_on_str(string))
        slice == <<start_index, end_index>>
    IN  [G |-> [G EXCEPT !.string_data = @ \o run_on_str(string),
                         !.string_data_map = (string :> slice) @@ @],
         slice |-> slice]

\* add_string: [G, slice]
add_string(G, string) ==
    IF string \in DOMAIN G.string_data_map
    THEN [G |-> G, slice |-> G.string_data_map[string]]
    ELSE LET start_index == Len(G.string_data)
             end_index == start_index + Len(run_on_str(string))
             slice == <<start_index, end_index>>
         IN  [G |-> [G EXCEPT !.string_data = @ \o run_on_str(string),
                              !.string_data_map = (string :> slice) @@ @],
              slice |-> slice]

emit_load_string_literal_instruction(G, string) ==
    LET r == add_string(G, string)
    IN  emit_bytes(emit_bytes(emit_instruction(r.G, "LoadStringLiteral"),
                              to_le_bytes(r.slice[1], 4)),
                   to_le_bytes(r.slice[2], 4))

\* emit_load_function_instruction; the operand is at Len(G.code) + 1
emit_load_function_instruction(G, function_index) ==
    emit_bytes(emit_instruction(G, "LoadFunction"), to_le_bytes(function_index, 4))

\* code[address .. address + 3] = bytes (address counts from 0)
Patch(G, address, bytes) ==
    IF address + 4 > Len(G.code) THEN GenPanicked(G, "index out of bounds")
    ELSE [G EXCEPT !.code = [i \in DOMAIN G.code |->
                                IF i > address /\ i <= address + 4
                                THEN bytes[i - address] ELSE G.code[i]]]

patch_load_function_instruction(G, address, new_function_index) ==
    Patch(G, address, to_le_bytes(new_function_index, 4))

\* emit_jump_instruction; the address to patch is Len(G.code) + 1
emit_jump_instruction(G, jump_instruction) ==
    emit_bytes(emit_instruction(G, jump_instruction), to_le_bytes(0, 4))

patch_jump_instruction(G, adress, jump_location) ==
    Patch(G, adress, to_le_bytes(jump_location, 4))

\* CahnFunction::new
CahnFunction(param_count, fcode, fcode_map, name_start, name_end) ==
    [param_count |-> param_count, code |-> fcode, code_map |-> fcode_map,
     name |-> [start_index |-> name_start, end_index |-> name_end]]

---------------------------------------------------------------------------
(* The recursive visit of the syntax tree, one step at a time.  todo is   *)
(* the call stack of the visit: its head is the node to visit next, or    *)
(* the point of visit_stmt / visit_expr to resume once the nodes before   *)
(* it are done.  An Err or a panic unwinds the whole stack.               *)

StmtTask(stmt) == [task |-> "stmt", node |-> stmt]
ExprTask(expr) == [task |-> "expr", node |-> expr]

\* visit_stmt_list: the statements in order
StmtTasks(stmts) == [i \in 1..Len(stmts) |-> StmtTask(stmts[i])]

\* the code range [start, end) emitted for a node
Span(kind, node, start, end) ==
    [kind |-> kind, node |-> node, start |-> start, end |-> end]

GenStep(G, next_todo) ==
    /\ BecomesGen(G)
    /\ todo' = IF G.status = "ok" THEN next_todo ELSE <<>>
    /\ UNCHANGED <<frontVars, parseVars, prog, vmVars, last_op, entered,
                                 shadow, frames>>

\* the step closes the span of a node (unless it failed)
Closes(G, kind, node, start) ==
    spans' = IF G.status \in {"ok", "done"}
             THEN spans \cup {Span(kind, node, start, Len(G.code))}
             ELSE spans

CahnMain == <<"C", "a", "h", "n", "M", "a", "i", "n">>

\* gen_executable and gen_toplevel_func up to the visit of the first
\* statement (visit_program_stmt has begun the outermost scope)
GenExecutable ==
    /\ cg_status = "new"
    /\ LET G1 == declare_anonymous_local(CodeGenerator_new)
           patch_here == Len(G1.code) + 1
           G2 == emit_load_function_instruction(G1, 0)
           fn_name == add_string_slice(G2, CahnMain)
           G3 == begin_scope(fn_name.G)
       IN  GenStep(G3, StmtTasks(prog.statements.stmts)
                        \o <<[task |-> "program_end", node |-> prog,
                              start |-> Len(G3.code),
                              patch_here |-> patch_here,
                              fn_name |-> fn_name.slice]>>)
    /\ scope_chain' = <<<<>>>>
    /\ UNCHANGED spans

\* visit_block_stmt up to the visit of its first statement
EnterBlock(block_stmt, rest) ==
    /\ GenStep(begin_scope(set_source_pos(Gen, block_stmt.brace_open.pos)),
               StmtTasks(block_stmt.statements.stmts)
                 \o <<[task |-> "block_end", node |-> block_stmt,
                       start |-> Len(code)]>> \o rest)
    /\ scope_chain' = Append(scope_chain, <<>>)
    /\ UNCHANGED spans

\* visit_stmt, up to its first visit of a child
VisitStmt ==
    /\ cg_status = "ok" /\ todo # <<>> /\ todo[1].task = "stmt"
    /\ LET stmt == todo[1].node
           rest == Tail(todo)
           Then(expr, resume) ==
               /\ GenStep(Gen, <<ExprTask(expr),
                                 [task |-> resume, node |-> stmt,
                                  start |-> Len(code)]>> \o rest)
               /\ UNCHANGED <<spans, scope_chain>>
       IN  CASE stmt.Stmt = "Block" -> EnterBlock(stmt, rest)
             [] stmt.Stmt = "Print" -> Then(stmt.inner, "print_emit")
             [] stmt.Stmt = "VarDecl" -> Then(stmt.init_expr, "vardecl_declare")
             [] stmt.Stmt = "If" -> Then(stmt.condition, "if_jump")
             [] stmt.Stmt = "While" -> Then(stmt.condition, "while_jump")
             [] stmt.Stmt = "ExprStmt" -> Then(stmt.expr, "exprstmt_pop")
             [] stmt.Stmt \in {"FnDecl", "Return"} ->
                    /\ GenStep(GenPanicked(Gen, "not implemented"), <<>>)
                    /\ UNCHANGED <<spans, scope_chain>>

\* impl Display of the expressions an assignment may wrongly target
FmtExpr(expr) ==
    IF expr.Expr \in {"Number", "String", "Bool"} THEN run_on_str(expr.token.lexeme)
    ELSE <<"(", ")">>

\* the instruction of a prefix operator, <<>> when there is none
PrefixInstruction(token_type) ==
    CASE token_type = "Minus" -> <<"Negate">>
      [] token_type = "Not" -> <<"Not">>
      [] OTHER -> <<>>

\* the instruction of an infix operator, <<>> when there is none
InfixInstruction(token_type) ==
    CASE token_type = "Plus" -> <<"Add">>
      [] token_type = "Minus" -> <<"Sub">>
      [] token_type = "Star" -> <<"Mul">>
      [] token_type = "Slash" -> <<"Div">>
      [] token_type = "Percent" -> <<"Modulo">>
      [] token_type = "DoubleEqual" -> <<"Equal">>
      [] token_type = "Less" -> <<"LessThan">>
      [] token_type = "LessEqual" -> <<"LessThanOrEqual">>
      [] token_type = "Greater" -> <<"GreaterThan">>
      [] token_type = "GreaterEqual" -> <<"GreaterThanOrEqual">>
      [] token_type = "DoubleDot" -> <<"Concat">>
      [] OTHER -> <<>>

\* the head of Expr::List: the CreateList instruction for len elements
EmitCreateList(G, len) ==
    IF len = 0 THEN emit_instruction(G, "CreateList")
    ELSE IF len <= U8_MAX
    THEN emit_byte(emit_instruction(G, "CreateListWithCap"), len)
    ELSE IF len <= U16_MAX
    THEN emit_bytes(emit_instruction(G, "CreateListWithCapW"), to_le_bytes(len, 2))
    ELSE emit_bytes(emit_instruction(G, "CreateListWithCapW"),
                    to_le_bytes(U16_MAX, 2))

\* for elem in elements { visit_expr(elem); emit ListPush }
ListTasks(expr, start) ==
    LET n == Len(expr.elements)
    IN  [i \in 1..(2 * n) |->
            IF i % 2 = 1 THEN ExprTask(expr.elements[(i + 1) \div 2])
            ELSE [task |-> "list_push", node |-> expr, start |-> start,
                  last |-> (i = 2 * n)]]

\* visit_expr, up to its first visit of a child
VisitExpr ==
    /\ cg_status = "ok" /\ todo # <<>> /\ todo[1].task = "expr"
    /\ UNCHANGED scope_chain
    /\ LET expr == todo[1].node
           rest == Tail(todo)
           start == Len(code)
           Leaf(G) ==
               /\ GenStep(G, rest)
               /\ Closes(G, "Expr", expr.Expr, start)
           Then(tasks) ==
               /\ GenStep(Gen, tasks \o rest)
               /\ UNCHANGED spans
           Resume(task) == [task |-> task, node |-> expr, start |-> start]
       IN  CASE expr.Expr = "Group" -> Then(<<ExprTask(expr.inner)>>)
             [] expr.Expr = "Bool" ->
                    Leaf(emit_instruction(
                            set_source_pos(Gen, expr.token.pos),
                            IF expr.value THEN "LoadTrue" ELSE "LoadFalse"))
             [] expr.Expr = "Number" ->
                    Leaf(emit_load_number_instruction(
                            set_source_pos(Gen, expr.token.pos),
                            expr.number, expr.token.lexeme))
             [] expr.Expr = "String" ->
                    Leaf(emit_load_string_literal_instruction(
                            set_source_pos(Gen, expr.token.pos), expr.string))
             [] expr.Expr = "Var" ->
                    LET r == get_local_index_by_token(Gen, expr.identifier)
                    IN  IF r.G.status # "ok" THEN Leaf(r.G)
                        ELSE Leaf(emit_get_local_instruction(
                                    set_source_pos(r.G, expr.identifier.pos),
                                    r.index))
             [] expr.Expr = "Prefix" ->
                    Then(<<ExprTask(expr.inner), Resume("prefix_emit")>>)
             [] expr.Expr = "Infix" ->
                    IF expr.operator.token_type = "ColonEqual"
                    THEN \* emit_assignment_instructions
                         IF expr.left.Expr # "Var"
                         THEN Leaf(Failed(Gen, InvalidAssignmentTarget(
                                                  FmtExpr(expr.left))))
                         ELSE Then(<<ExprTask(expr.right), Resume("assign_store")>>)
                    ELSE Then(<<ExprTask(expr.left), ExprTask(expr.right),
                                Resume("infix_emit")>>)
             [] expr.Expr = "List" ->
                    LET G1 == EmitCreateList(
                                set_source_pos(Gen, expr.bracket_open.pos),
                                Len(expr.elements))
                    IN  IF expr.elements = <<>> THEN Leaf(G1)
                        ELSE /\ GenStep(G1, ListTasks(expr, start) \o rest)
                             /\ UNCHANGED spans
             [] expr.Expr = "Subscript" ->
                    Then(<<ExprTask(expr.subscriptee), ExprTask(expr.index),
                           Resume("subscript_emit")>>)
             [] expr.Expr \in {"Call", "AnynFnDecl"} ->
                    Leaf(GenPanicked(Gen, "not implemented"))

\* visit_expr resumed after its last visit of a child
ResumeExpr ==
    /\ cg_status = "ok" /\ todo # <<>>
    /\ todo[1].task \in {"prefix_emit", "infix_emit", "assign_store",
                         "list_push", "subscript_emit"}
    /\ UNCHANGED scope_chain
    /\ LET task == todo[1].task
           expr == todo[1].node
           rest == Tail(todo)
           Done(G) ==
               /\ GenStep(G, rest)
               /\ Closes(G, "Expr", expr.Expr, todo[1].start)
           Emit(pos, instruction) ==
               IF instruction = <<>>
               THEN Done(GenPanicked(Gen, "this token type should not be here"))
               ELSE Done(emit_instruction(set_source_pos(Gen, pos), instruction[1]))
       IN  CASE task = "prefix_emit" ->
                    Emit(expr.operator.pos,
                         PrefixInstruction(expr.operator.token_type))
             [] task = "infix_emit" ->
                    Emit(expr.operator.pos,
                         InfixInstruction(expr.operator.token_type))
             [] task = "subscript_emit" ->
                    Emit(expr.bracket_open.pos, <<"ListGetIndex">>)
             [] task = "list_push" ->
                    IF todo[1].last THEN Done(emit_instruction(Gen, "ListPush"))
                    ELSE /\ GenStep(emit_instruction(Gen, "ListPush"), rest)
                         /\ UNCHANGED spans
             [] task = "assign_store" ->
                    \* the rest of emit_assignment_instructions
                    LET identifier == expr.left.identifier
                        r == get_local_index_by_token(
                                set_source_pos(Gen, identifier.pos), identifier)
                    IN  IF r.G.status # "ok" THEN Done(r.G)
                        ELSE Done(emit_set_local_instruction(
                                    emit_instruction(r.G, "Dup"), r.index))

\* visit_stmt resumed after a visit of a child
ResumeStmt ==
    /\ cg_status = "ok" /\ todo # <<>>
    /\ todo[1].task \in {"print_emit", "vardecl_declare", "if_jump", "if_else",
                         "if_end", "while_jump", "while_end", "exprstmt_pop"}
    /\ LET task == todo[1].task
           stmt == todo[1].node
           start == todo[1].start
           rest == Tail(todo)
           Done(G) ==
               /\ GenStep(G, rest)
               /\ Closes(G, "Stmt", stmt.Stmt, start)
           Then(G, tasks) ==
               /\ GenStep(G, tasks \o rest)
               /\ UNCHANGED spans
       IN  CASE task = "print_emit" ->
                    /\ Done(emit_instruction(
                              set_source_pos(Gen, stmt.print_token.pos), "Print"))
                    /\ UNCHANGED scope_chain
             [] task = "vardecl_declare" ->
                    /\ Done(declare_local(
                              set_source_pos(Gen, stmt.var_token.pos),
                              stmt.identifier.lexeme))
                    /\ scope_chain' =
                          [scope_chain EXCEPT ![Len(scope_chain)] =
                              Append(@, stmt.identifier.lexeme)]
             [] task = "exprstmt_pop" ->
                    /\ Done(emit_instruction(Gen, "Pop"))
                    /\ UNCHANGED scope_chain
             [] task = "if_jump" ->
                    LET G1 == set_source_pos(Gen, stmt.if_token.pos)
                        then_jump == Len(G1.code) + 1
                    IN  /\ Then(emit_jump_instruction(G1, "JumpIfFalse"),
                                <<StmtTask(stmt.then_clause),
                                  [task |-> "if_else", node |-> stmt,
                                   start |-> start, then_jump |-> then_jump]>>)
                        /\ UNCHANGED scope_chain
             [] task = "if_else" ->
                    LET G1 == IF stmt.else_token # <<>>
                              THEN emit_jump_instruction(
                                      set_source_pos(Gen, stmt.else_token[1].pos),
                                      "Jump")
                              ELSE Gen
                        else_jump == IF stmt.else_token # <<>>
                                     THEN <<Len(code) + 1>> ELSE <<>>
                        G2 == patch_jump_instruction(G1, todo[1].then_jump,
                                                     Len(G1.code))
                    IN  /\ IF stmt.else_clause # <<>>
                           THEN Then(G2, <<StmtTask(stmt.else_clause[1]),
                                           [task |-> "if_end", node |-> stmt,
                                            start |-> start,
                                            else_jump |-> else_jump]>>)
                           ELSE Done(G2)
                        /\ UNCHANGED scope_chain
             [] task = "if_end" ->
                    /\ IF todo[1].else_jump = <<>>
                       THEN Done(GenPanicked(Gen, "unwrap on None"))
                       ELSE Done(patch_jump_instruction(Gen, todo[1].else_jump[1],
                                                        Len(code)))
                    /\ UNCHANGED scope_chain
             [] task = "while_jump" ->
                    LET G1 == set_source_pos(Gen, stmt.while_token.pos)
                        loop_done_adress == Len(G1.code) + 1
                    IN  /\ Then(emit_jump_instruction(G1, "JumpIfFalse"),
                                <<StmtTask(stmt.block),
                                  [task |-> "while_end", node |-> stmt,
                                   start |-> start,
                                   loop_done_adress |-> loop_done_adress]>>)
                        /\ UNCHANGED scope_chain
             [] task = "while_end" ->
                    LET start_adress == start
                        G1 == emit_bytes(
                                emit_instruction(
                                  set_source_pos(Gen, stmt.block.brace_close.pos),
                                  "Jump"),
                                to_le_bytes(start_adress, 4))
                    IN  /\ Done(patch_jump_instruction(
                                  G1, todo[1].loop_done_adress, Len(G1.code)))
                        /\ UNCHANGED scope_chain

\* the end of visit_block_stmt
EndBlock ==
    /\ cg_status = "ok" /\ todo # <<>> /\ todo[1].task = "block_end"
    /\ LET G1 == end_scope(set_source_pos(Gen, todo[1].node.brace_close.pos))
       IN  /\ GenStep(G1, Tail(todo))
           /\ Closes(G1, "Stmt", "Block", todo[1].start)
    /\ scope_chain' = Front(scope_chain)

\* the end of visit_program_stmt, then the rest of gen_toplevel_func and
\* of gen_executable
FinishExecutable ==
    /\ cg_status = "ok" /\ todo # <<>> /\ todo[1].task = "program_end"
    /\ LET G1 == end_scope(set_source_pos(Gen, todo[1].node.eof_token.pos))
           G2 == patch_load_function_instruction(G1, todo[1].patch_here,
                                                 Len(G1.functions))
           main_func == CahnFunction(0, G2.code, G2.code_map,
                                     todo[1].fn_name[1], todo[1].fn_name[2])
           G3 == [G2 EXCEPT !.functions = Append(@, main_func),
                            !.status = "done"]
       IN  IF G1.status # "ok" THEN GenStep(G1, <<>>) /\ UNCHANGED spans
           ELSE IF G2.status # "ok" THEN GenStep(G2, <<>>) /\ UNCHANGED spans
           ELSE /\ BecomesGen(G3)
                /\ todo' = <<>>
                /\ UNCHANGED <<frontVars, parseVars, prog, vmVars, last_op, entered,
                                 shadow, frames>>
                /\ spans' = spans \cup {Span("Stmt", "Program", todo[1].start,
                                             Len(G1.code))}
    /\ scope_chain' = Front(scope_chain)

---------------------------------------------------------------------------
(* VM::new, VM::run and the dispatch of exec_instruction *)

\* the function the VM runs: exec.functions.last() until an Invoke or a
\* Return changes it
curr_func == functions[curr_func_index + 1]

\* the unsigned integer in code[at .. at + n - 1] (at counts from 0),
\* -1 when the read leaves the code
ReadLe(fcode, at, n) ==
    IF at + n > Len(fcode) THEN -1
    ELSE from_le_bytes(SubSeq(fcode, at + 1, at + n))

\* Box::new: the address of the object an instruction allocates, NULL
\* when the memory of the model is exhausted
BoxNew(M) == IF BoxAddrs(M) = {} THEN {NULL} ELSE BoxAddrs(M)

\* print_stack, called by run after every instruction: it formats every
\* value of the stack (to the standard output, not to the sink of the VM)
print_stack(S, sd, fns) ==
    IF S.status # "running" THEN S
    ELSE IF \E i \in DOMAIN S.stack : Dangling(S.stack[i], S.mm) THEN Undefined(S)
    ELSE IF \E i \in DOMAIN S.stack :
                IsEndless(FmtValue(S.stack[i], S.mm, sd, fns, FmtFuel))
    THEN Aborted(S)
    ELSE S

\* VM::assert_function
assert_function(val, fns) ==
    IF ~IsFunction(val)
    THEN [panic |-> "invalid bytecode, expected value to be a function"]
    ELSE IF val.function_index + 1 > Len(fns)
    THEN [panic |-> "index out of bounds"]
    ELSE [function_index |-> val.function_index]

\* Invoke: the frame starts at the callee value, below the arguments
Exec_Invoke(S, fns, arg_count) ==
    IF Len(S.stack) < arg_count + 1
    THEN Panicked(S, "attempt to subtract with overflow")
    ELSE LET S1 == [S EXCEPT !.fp = Len(S.stack) - arg_count - 1]
             callee == S1.stack[S1.fp + 1]
         IN  IF ~IsFunction(callee)
             THEN Raised(S1, TypeError("attempted to call a non-function"))
             ELSE IF callee.function_index + 1 > Len(fns)
             THEN Panicked(S1, "index out of bounds")
             ELSE [S1 EXCEPT !.func = callee.function_index, !.ip = 0]

\* Return: pop the return value, the arguments and the callee, then the
\* function to return to and the return address; push the return value.
\* fp is not assigned
Exec_Return(S, sd, fns) ==
    IF print_stack(S, sd, fns).status # "running" THEN print_stack(S, sd, fns)
    ELSE IF Len(S.stack) < 1 THEN Panicked(S, "unwrap on None")
    ELSE LET return_val == Last(S.stack)
             S1 == Popped(S, 1)
         IN  IF S1.fp + 1 > Len(S1.stack)
             THEN Panicked(S1, "index out of bounds")
             ELSE LET called == assert_function(S1.stack[S1.fp + 1], fns)
                  IN  IF "panic" \in DOMAIN called
                      THEN Panicked(S1, called.panic)
                      ELSE LET called_function == fns[called.function_index + 1]
                               S2 == Popped(S1, called_function.param_count + 1)
                           IN  IF Len(S1.stack) < called_function.param_count + 3
                               THEN Panicked(Popped(S2, 2), "unwrap on None")
                               ELSE LET callee_function ==
                                            assert_function(Last(S2.stack), fns)
                                        S3 == Popped(S2, 1)
                                        stack_top == Last(S3.stack)
                                        S4 == Popped(S3, 1)
                                    IN  IF "panic" \in DOMAIN callee_function
                                        THEN Panicked(S3, callee_function.panic)
                                        ELSE IF ~IsReturnAdress(stack_top)
                                        THEN Panicked(S4, "invalid bytecode, expected value to be a return adress")
                                        ELSE push([S4 EXCEPT
                                                     !.func = callee_function.function_index,
                                                     !.ip = stack_top.ret_ip],
                                                  return_val)

Exec_LoadReturnAdress(S, ret_addr) == push(S, VReturnAdress(ret_addr))

\* exec_instruction: S.ip is behind the opcode, a is the address Box::new
\* returns if the instruction allocates.
exec_instruction(S, exec_string_data, exec_num_consts, fns, fcode, instruction, a) ==
    LET u8 == ReadLe(fcode, S.ip, 1)
        u16 == ReadLe(fcode, S.ip, 2)
        u32 == ReadLe(fcode, S.ip, 4)
        second_u32 == ReadLe(fcode, S.ip + 4, 4)
        Read(n) == [S EXCEPT !.ip = @ + n]
        OutOfCode == Panicked(S, "index out of bounds")
        OutOfMemory == Aborted(S)
    IN  CASE instruction = "LoadStringLiteral" ->
                IF u32 < 0 THEN OutOfCode
                ELSE IF second_u32 < 0 THEN Panicked(Read(4), "index out of bounds")
                ELSE Exec_LoadStringLiteral(Read(8), u32, second_u32)
          [] instruction = "Concat" ->
                IF a = NULL /\ ConcatAllocates(S, exec_string_data, fns)
                THEN OutOfMemory
                ELSE Exec_Concat(S, exec_string_data, fns, a)
          [] instruction = "LoadConstNum" ->
                IF u8 < 0 THEN OutOfCode
                ELSE Exec_LoadConstNum(Read(1), exec_num_consts, u8)
          [] instruction = "LoadConstNumW" ->
                IF u16 < 0 THEN OutOfCode
                ELSE Exec_LoadConstNum(Read(2), exec_num_consts, u16)
          [] instruction = "LoadConstNumWW" ->
                IF u32 < 0 THEN OutOfCode
                ELSE Exec_LoadConstNum(Read(4), exec_num_consts, u32)
          [] instruction = "LoadLitNum" ->
                IF u8 < 0 THEN OutOfCode ELSE Exec_LoadLitNum(Read(1), u8)
          [] instruction = "SetLocal" ->
                IF u8 < 0 THEN OutOfCode ELSE Exec_SetLocal(Read(1), u8)
          [] instruction = "SetLocalW" ->
                IF u16 < 0 THEN OutOfCode ELSE Exec_SetLocal(Read(2), u16)
          [] instruction = "GetLocal" ->
                IF u8 < 0 THEN OutOfCode ELSE Exec_GetLocal(Read(1), u8)
          [] instruction = "GetLocalW" ->
                IF u16 < 0 THEN OutOfCode ELSE Exec_GetLocal(Read(2), u16)
          [] instruction = "LoadTrue" -> Exec_LoadTrue(S)
          [] instruction = "LoadFalse" -> Exec_LoadFalse(S)
          [] instruction = "LoadNil" -> Exec_LoadNil(S)
          [] instruction \in {"Add", "Sub", "Mul", "Div", "Modulo", "LessThan",
                              "LessThanOrEqual", "GreaterThan",
                              "GreaterThanOrEqual"} ->
                Exec_Binary(S, instruction)
          [] instruction = "Negate" -> Exec_Negate(S)
          [] instruction = "Not" -> Exec_Not(S)
          [] instruction = "Equal" -> Exec_Equal(S)
          [] instruction = "Dup" -> Exec_Dup(S)
          [] instruction = "Pop" -> Exec_Pop(S)
          [] instruction = "Print" -> Exec_Print(S, exec_string_data, fns)
          [] instruction = "Jump" ->
                IF u32 < 0 THEN OutOfCode ELSE Exec_Jump(Read(4), u32)
          [] instruction = "JumpIfFalse" ->
                IF u32 < 0 THEN OutOfCode ELSE Exec_JumpIfFalse(Read(4), u32)
          [] instruction = "CreateList" ->
                IF a = NULL THEN OutOfMemory ELSE Exec_CreateList(S, 0, a)
          [] instruction = "CreateListWithCap" ->
                IF u8 < 0 THEN OutOfCode
                ELSE IF a = NULL THEN OutOfMemory
                ELSE Exec_CreateList(Read(1), u8, a)
          [] instruction = "CreateListWithCapW" ->
                IF u16 < 0 THEN OutOfCode
                ELSE IF a = NULL THEN OutOfMemory
                ELSE Exec_CreateList(Read(2), u16, a)
          [] instruction = "ListPush" -> Exec_ListPush(S)
          [] instruction = "ListGetIndex" -> Exec_ListGetIndex(S)
          [] instruction = "LoadFunction" ->
                IF u32 < 0 THEN OutOfCode ELSE Exec_LoadFunction(Read(4), u32)
          [] instruction = "Invoke" ->
                IF u8 < 0 THEN OutOfCode ELSE Exec_Invoke(Read(1), fns, u8)
          [] instruction = "Return" -> Exec_Return(S, exec_string_data, fns)
          [] instruction = "LoadReturnAdress" ->
                IF ReadLe(fcode, S.ip, 8) < 0 THEN OutOfCode
                ELSE Exec_LoadReturnAdress(Read(8), ReadLe(fcode, S.ip, 8))

\* one turn of the loop of run: read_instruction, the read of
\* code_map[ip], exec_instruction, print_stack
run_iteration(S, exec_string_data, exec_num_consts, fns, func, a) ==
    LET byte == func.code[S.ip + 1]
        S1 == [S EXCEPT !.ip = @ + 1]
    IN  IF byte + 1 \notin DOMAIN Instruction THEN Undefined(S1)
        ELSE IF S1.ip + 1 > Len(func.code_map)
        THEN Panicked(S1, "index out of bounds")
        ELSE print_stack(
                exec_instruction(S1, exec_string_data, exec_num_consts, fns,
                                 func.code, Instruction[byte + 1], a),
                exec_string_data, fns)

\* the spans whose code the VM is in after a step from ip0 to ip1: those
\* it was in and has not left before the step, and those it enters now
Entering(ip0, ip1, depth) ==
    {r \in entered : r.span.start <= ip0 /\ ip0 < r.span.end}
      \cup {[span |-> sp, depth |-> depth] :
               sp \in {x \in spans : x.start = ip1
                                      /\ ~(x.start <= ip0 /\ ip0 < x.end)}}

\* VM::new
VMNew ==
    /\ cg_status = "done" /\ status = "idle"
    /\ stack' = <<>> /\ ip' = 0 /\ fp' = 0
    /\ curr_func_index' = Len(functions) - 1
    /\ mem_manager' = MemoryManager_new
    /\ status' = "running"
    /\ UNCHANGED <<cgVars, stdout, error, dropped, last_op, ghostVars>>

\* the identifiers of the let statements of a list of statements, in the
\* order of the source
RECURSIVE DeclsOf(_)
DeclsOf(stmts) ==
    IF stmts = <<>> THEN <<>>
    ELSE LET s == Head(stmts)
             rest == Tail(stmts)
         IN  CASE s.Stmt = "VarDecl" -> <<s.identifier>> \o DeclsOf(rest)
               [] s.Stmt = "Block" -> DeclsOf(s.statements.stmts \o rest)
               [] s.Stmt = "If" ->
                      DeclsOf(<<s.then_clause>> \o s.else_clause \o rest)
               [] s.Stmt = "While" -> DeclsOf(<<s.block>> \o rest)
               [] OTHER -> DeclsOf(rest)

\* the identifier tokens of the variable expressions of a list of nodes
RECURSIVE IdentsOf(_)
IdentsOf(nodes) ==
    IF nodes = <<>> THEN {}
    ELSE LET n == Head(nodes)
             rest == Tail(nodes)
         IN  IF "Expr" \in DOMAIN n
             THEN CASE n.Expr = "Var" -> {n.identifier} \cup IdentsOf(rest)
                    [] n.Expr \in {"Group", "Prefix"} ->
                           IdentsOf(<<n.inner>> \o rest)
                    [] n.Expr = "Infix" -> IdentsOf(<<n.left, n.right>> \o rest)
                    [] n.Expr = "List" -> IdentsOf(n.elements \o rest)
                    [] n.Expr = "Subscript" ->
                           IdentsOf(<<n.subscriptee, n.index>> \o rest)
                    [] n.Expr = "Call" -> IdentsOf(<<n.callee>> \o rest)
                    [] OTHER -> IdentsOf(rest)
             ELSE CASE n.Stmt = "Print" -> IdentsOf(<<n.inner>> \o rest)
                    [] n.Stmt = "VarDecl" -> IdentsOf(<<n.init_expr>> \o rest)
                    [] n.Stmt = "Block" -> IdentsOf(n.statements.stmts \o rest)
                    [] n.Stmt = "If" ->
                           IdentsOf(<<n.condition, n.then_clause>>
                                       \o n.else_clause \o rest)
                    [] n.Stmt = "While" ->
                           IdentsOf(<<n.condition, n.block>> \o rest)
                    [] n.Stmt = "ExprStmt" -> IdentsOf(<<n.expr>> \o rest)
                    [] OTHER -> IdentsOf(rest)

\* the name of the variable expression at a source position of the program
NameAt(pos) ==
    (CHOOSE t \in IdentsOf(prog.statements.stmts) : t.pos = pos).lexeme

\* the spans of the let statements, and the name each one declares: the
\* code of the let statements lies in the order of the source
VarDeclSpans == {sp \in spans : sp.kind = "Stmt" /\ sp.node = "VarDecl"}

DeclaredBy(sp) ==
    DeclsOf(prog.statements.stmts)
        [Cardinality({t \in VarDeclSpans : t.start < sp.start}) + 1].lexeme

\* the block (or the program) a span lies directly in
ScopeOf(sp) ==
    LET around == {b \in spans : /\ b.node \in {"Block", "Program"}
                                  /\ b.start <= sp.start /\ sp.end <= b.end}
    IN  CHOOSE b \in around :
            \A b2 \in around : b.end - b.start <= b2.end - b2.start

\* the innermost variable of a name that is alive, 0 when there is none
Innermost(sh, name) ==
    IF \E i \in DOMAIN sh : sh[i].name = name
    THEN CHOOSE i \in DOMAIN sh :
            /\ sh[i].name = name
            /\ \A j \in DOMAIN sh : sh[j].name = name => j <= i
    ELSE 0

\* the variables alive after a step of the run from ip0, where the
\* instruction op stood, to the machine S.  An assignment gives the
\* innermost variable of its name the value assigned; a variable dies when
\* the run leaves the block of its let statement; a let statement whose
\* code the step completes declares a variable, whose storage is the top of
\* the stack
ShadowAfter(ip0, op, S) ==
    LET target == IF op \in {"SetLocal", "SetLocalW"} /\ stack # <<>>
                  THEN Innermost(shadow, NameAt(curr_func.code_map[ip0 + 1]))
                  ELSE 0
        assigned == IF target = 0 THEN shadow
                    ELSE [shadow EXCEPT ![target].value = Last(stack)]
        Alive(e) == e.scope.start <= S.ip /\ S.ip < e.scope.end
        alive == SelectSeq(assigned, Alive)
        declared == {sp \in VarDeclSpans :
                        sp.start <= ip0 /\ ip0 < sp.end /\ S.ip = sp.end}
    IN  IF declared = {} \/ S.stack = <<>> THEN alive
        ELSE LET sp == CHOOSE d \in declared : TRUE
             IN  Append(alive, [name |-> DeclaredBy(sp), scope |-> ScopeOf(sp),
                                slot |-> Len(S.stack),
                                value |-> Last(S.stack)])

\* the calls in progress after a step of the run that executed op and led
\* to the machine S: an Invoke opens a call and records the frame base, the
\* function and the stack of the caller; a Return closes the innermost one
FramesAfter(op, S) ==
    IF op = "Invoke"
    THEN Append(frames, [fp |-> fp, func |-> curr_func_index,
                         base |-> S.fp, below |-> SubSeq(stack, 1, S.fp)])
    ELSE IF op = "Return" /\ frames # <<>> THEN Front(frames)
    ELSE frames

\* one turn of the loop of run
VMRunInstruction ==
    /\ status = "running" /\ ~dropped /\ cg_status = "done"
    /\ ip < Len(curr_func.code)
    /\ \E a \in BoxNew(mem_manager) :
          LET S == run_iteration(Machine, string_data, num_consts, functions,
                                 curr_func, a)
          IN  /\ Becomes(S)
              /\ entered' = IF S.status = "running"
                            THEN Entering(ip, S.ip, Len(S.stack))
                            ELSE entered
              /\ shadow' = IF S.status = "running" /\ spans # {}
                           THEN ShadowAfter(ip, Instruction[curr_func.code[ip + 1] + 1], S)
                           ELSE shadow
              /\ frames' = IF S.status = "running"
                           THEN FramesAfter(Instruction[curr_func.code[ip + 1] + 1], S)
                           ELSE frames
              /\ last_op' = IF S.mm = mem_manager THEN NoMemOp
                            ELSE MemOp("alloc", <<>>, mem_manager, S.mm)
    /\ UNCHANGED <<cgVars, dropped, spans, scope_chain>>

\* run leaves its loop and returns Ok(())
VMRunReturns ==
    /\ status = "running" /\ ~dropped /\ cg_status = "done"
    /\ ip >= Len(curr_func.code)
    /\ status' = "ok"
    /\ last_op' = NoMemOp
    /\ UNCHANGED <<cgVars, stack, ip, fp, curr_func_index, stdout, error, dropped,
                   mem_manager,
                   ghostVars>>

---------------------------------------------------------------------------
(* SpecHeap: the VM executing an arbitrary stream of the instructions     *)
(* that touch the heap (a hand-built Executable, as in tests/function.rs, *)
(* may hold any of them in any order).                                    *)

HeapStringData == <<"a">>
HeapLiterals == {<<0, 1>>}
HeapNumbers == {0}

\* no interner and no lexer at work
FrontIdle ==
    /\ interner = <<>> /\ atoms = {} /\ lexer = <<>>
    /\ lex_pc = "none" /\ lexed = <<>>

\* no parser at work
ParserIdle ==
    /\ FrontIdle
    /\ tokens = <<>> /\ peek_pos = 0 /\ parse_status = "none"
    /\ parse_error = <<>>

InitHeap ==
    /\ ParserIdle
    /\ prog = <<>> /\ todo = <<>>
    /\ code = <<>> /\ code_map = <<>>
    /\ current_source_position = <<1, 1>>
    /\ locals = <<>> /\ scope_level = 0
    /\ num_consts = <<>> /\ num_consts_map = <<>>
    /\ string_data = HeapStringData /\ string_data_map = <<>>
    /\ functions = <<>>
    /\ cg_status = "ok" /\ cg_error = <<>>
    /\ stack = <<>> /\ ip = 0 /\ fp = 0 /\ stdout = <<>>
    /\ curr_func_index = 0
    /\ status = "running" /\ error = <<>>
    /\ dropped = FALSE
    /\ mem_manager = MemoryManager_new
    /\ last_op = NoMemOp
    /\ spans = {} /\ scope_chain = <<>> /\ entered = {} /\ shadow = <<>>
    /\ frames = <<>>

Running == status = "running" /\ ~dropped

HStep(S) ==
    /\ Becomes(S)
    /\ last_op' = NoMemOp
    /\ UNCHANGED <<cgVars, dropped, ghostVars>>

HLoadStringLiteral ==
    /\ Running /\ Len(stack) < MaxStack
    /\ \E r \in HeapLiterals :
          HStep(Exec_LoadStringLiteral(Machine, r[1], r[2]))

HLoadLitNum ==
    /\ Running /\ Len(stack) < MaxStack
    /\ \E n \in HeapNumbers : HStep(Exec_LoadLitNum(Machine, n))

HConcat ==
    /\ Running
    /\ Len(ConcatString(Machine, string_data, functions)) <= MaxStrLen
    /\ ConcatAllocates(Machine, string_data, functions)
          => mem_manager.total_allocs < MaxAllocs
    /\ \E a \in BoxAddrs(mem_manager) :
          /\ Becomes(Exec_Concat(Machine, string_data, functions, a))
          /\ last_op' = IF ConcatCallsAllocString(Machine, string_data, functions)
                         THEN MemOp("alloc_string",
                                    ConcatString(Machine, string_data, functions),
                                    mem_manager, mem_manager')
                         ELSE NoMemOp
          /\ UNCHANGED <<cgVars, dropped, ghostVars>>

HCreateList ==
    /\ Running /\ Len(stack) < MaxStack
    /\ mem_manager.total_allocs < MaxAllocs
    /\ \E a \in BoxAddrs(mem_manager) :
          /\ Becomes(Exec_CreateList(Machine, 0, a))
          /\ last_op' = MemOp("alloc_list", <<>>, mem_manager, mem_manager')
          /\ UNCHANGED <<cgVars, dropped, ghostVars>>

HListPush ==
    /\ Running
    /\ Len(stack) >= 2 /\ IsHeap(stack[Len(stack) - 1])
          /\ ~Dangling(stack[Len(stack) - 1], mem_manager)
          /\ IsHList(mem_manager.cells[stack[Len(stack) - 1].ptr].payload)
       => Len(mem_manager.cells[stack[Len(stack) - 1].ptr].payload.list) < MaxListLen
    /\ HStep(Exec_ListPush(Machine))

HListGetIndex == Running /\ HStep(Exec_ListGetIndex(Machine))

HDup == Running /\ Len(stack) < MaxStack /\ HStep(Exec_Dup(Machine))

HPop == Running /\ HStep(Exec_Pop(Machine))

HGetLocal ==
    /\ Running /\ Len(stack) < MaxStack
    /\ \E k \in 0..(MaxStack - 1) : HStep(Exec_GetLocal(Machine, k))

HSetLocal ==
    /\ Running
    /\ \E k \in 0..(MaxStack - 1) : HStep(Exec_SetLocal(Machine, k))

\* VM::run leaves its loop: ip has reached the end of the code
HRunReturns ==
    /\ Running
    /\ status' = "ok"
    /\ last_op' = NoMemOp
    /\ UNCHANGED <<cgVars, stack, ip, fp, curr_func_index, stdout, error, dropped,
                   mem_manager,
                   ghostVars>>

\* run consumed the VM: when it returns or unwinds, the VM and with it the
\* MemoryManager are dropped
DropVM ==
    /\ status \in {"ok", "error", "panic"} /\ ~dropped
    /\ mem_manager' = MemoryManager_drop(mem_manager)
    /\ stack' = <<>>
    /\ dropped' = TRUE
    /\ last_op' = MemOp("drop", <<>>, mem_manager, mem_manager')
    /\ UNCHANGED <<cgVars, ip, fp, curr_func_index, stdout, status, error,
                   ghostVars>>

NextHeap ==
    \/ HLoadStringLiteral \/ HLoadLitNum \/ HConcat \/ HCreateList
    \/ HListPush \/ HListGetIndex \/ HDup \/ HPop \/ HGetLocal \/ HSetLocal
    \/ HRunReturns \/ DropVM

SpecHeap == InitHeap /\ [][NextHeap]_vars

---------------------------------------------------------------------------
(* Properties of the memory manager, checked under SpecHeap *)

\* the values held by the linked list objects
ListElems(M) ==
    UNION {{M.cells[a].payload.list[i] : i \in DOMAIN M.cells[a].payload.list} :
            a \in {b \in LinkedSet(M) : IsHList(M.cells[b].payload)}}

StackVals == {stack[i] : i \in DOMAIN stack}

\* C1: a collection triggered by an allocation frees no object that a Heap
\* value on the stack leads to, directly or through lists, and not the
\* object just allocated: every Heap value on the stack or inside a linked
\* list refers to an object that is still linked (not deallocated), no
\* freed object is ever read, and no assertion of the manager fails
C1_GcKeepsReachable ==
    /\ status # "ub"
    /\ mem_manager.fault = "none"
    /\ \A v \in StackVals \cup ListElems(mem_manager) :
          IsHeap(v) => /\ ~IsFreed(mem_manager.cells[v.ptr])
                       /\ v.ptr \in LinkedSet(mem_manager)

\* an allocation has just collected while an object was reachable only
\* through a list on the stack, and the new object is on top of the stack
C1_Witness ==
    /\ status = "running"
    /\ last_op.name = "alloc_string"
    /\ mem_manager.total_allocs = MaxAllocs
    /\ Cardinality(LinkedSet(mem_manager)) = MaxAllocs
    /\ Len(stack) >= 2
    /\ IsHeap(Last(stack))
    /\ \E v \in ListElems(mem_manager) : IsHeap(v) /\ v \notin StackVals

\* C6: every handle in the intern table refers to a linked string object
\* whose content hashes to the entry's key, in every state (so after every
\* alloc_string, alloc_list, gc and dealloc_all): an entry never outlives
\* the deallocation of its string
C6_InternEntriesLinked ==
    \A h \in DOMAIN mem_manager.intern_string_map :
        LET p == mem_manager.intern_string_map[h]
        IN  /\ p \in LinkedSet(mem_manager)
            /\ IsHString(mem_manager.cells[p].payload)
            /\ hash_string(mem_manager.cells[p].payload.string) = h

\* a collection triggered by an allocation has just deallocated an interned
\* string while another string stays interned
C6_Witness ==
    /\ ~dropped
    /\ last_op.freed_string
    /\ DOMAIN mem_manager.intern_string_map # {}

\* the linked string objects of M whose content is string
LinkedStrings(M, string) ==
    {p \in LinkedSet(M) : /\ IsHString(M.cells[p].payload)
                          /\ M.cells[p].payload.string = string}

\* C7: alloc_string called with the content of a string object that is
\* linked returns the handle of that object and allocates nothing: the
\* whole manager (object list, counters, intern table) is unchanged
C7_InternedStringReused ==
    [][(/\ last_op'.name = "alloc_string"
        /\ LinkedStrings(mem_manager, last_op'.string) # {})
       => /\ mem_manager' = mem_manager
          /\ stack' # <<>>
          /\ IsHeap(Last(stack'))
          /\ Last(stack').ptr \in LinkedStrings(mem_manager, last_op'.string)]_vars

\* alloc_string has just been called for a content already on the heap:
\* one allocation was made in all, and the handle is on the stack twice
C7_Witness ==
    /\ last_op.name = "alloc_string"
    /\ mem_manager.total_allocs = 1
    /\ Len(stack) = 2
    /\ stack[1] = stack[2]
    /\ IsHeap(stack[2])
    /\ mem_manager.cells[stack[2].ptr].payload = HString(last_op.string)

\* C8: once the manager is dropped the object list and the intern table
\* are empty, every object is deallocated, and total_deallocs equals
\* total_allocs
C8_DropFreesAll ==
    dropped =>
        /\ mem_manager.fault = "none"
        /\ mem_manager.heap_vals = NULL
        /\ DOMAIN mem_manager.intern_string_map = {}
        /\ \A a \in Addrs : IsFreed(mem_manager.cells[a])
        /\ mem_manager.total_deallocs = mem_manager.total_allocs

\* the manager was dropped after a run that made every allocation the
\* model allows, and the drop deallocated an interned string
C8_Witness ==
    /\ dropped
    /\ last_op.name = "drop"
    /\ last_op.freed_string
    /\ mem_manager.total_allocs = MaxAllocs


---------------------------------------------------------------------------
(* Spec: a program is compiled by gen_executable, the executable is run   *)
(* by a new VM, and the VM is dropped when run returns or unwinds.        *)

Init ==
    /\ ParserIdle
    /\ prog \in Programs
    /\ todo = <<>>
    /\ code = <<>> /\ code_map = <<>>
    /\ current_source_position = TokenPos(1, 1)
    /\ locals = <<>> /\ scope_level = 0
    /\ num_consts = <<>> /\ num_consts_map = <<>>
    /\ string_data = <<>> /\ string_data_map = <<>>
    /\ functions = <<>>
    /\ cg_status = "new" /\ cg_error = <<>>
    /\ stack = <<>> /\ ip = 0 /\ fp = 0 /\ stdout = <<>>
    /\ curr_func_index = 0
    /\ status = "idle" /\ error = <<>>
    /\ dropped = FALSE
    /\ mem_manager = MemoryManager_new
    /\ last_op = NoMemOp
    /\ spans = {} /\ scope_chain = <<>> /\ entered = {} /\ shadow = <<>>
    /\ frames = <<>>

Next ==
    \/ GenExecutable \/ VisitStmt \/ VisitExpr \/ ResumeExpr \/ ResumeStmt
    \/ EndBlock \/ FinishExecutable
    \/ VMNew \/ VMRunInstruction \/ VMRunReturns \/ DropVM

Spec == Init /\ [][Next]_vars

---------------------------------------------------------------------------
(* SpecParse: a parser is made over a token stream and parse_program is   *)
(* applied to it.  The streams are every sequence of at most MaxTokens    *)
(* of the words of WordSet,  and the sample sources below.                *)

MaxTokens == 5

Word(token_type, lexeme) == [token_type |-> token_type, lexeme |-> lexeme]
Kw(token_type) == Word(token_type, NoLexeme)
WordX == Word("Identifier", AtomX)
WordY == Word("Identifier", AtomY)
Word1 == Word("Number", Atom1)
Word2 == Word("Number", Atom2)

WordSet ==
    {WordX, Kw("Less"), Kw("ColonEqual"), Kw("And"), Kw("Or"),
     Kw("BraceOpen"), Kw("BraceClose")}

RECURSIVE WordLists(_)
WordLists(n) ==
    IF n = 0 THEN {<<>>}
    ELSE LET shorter == WordLists(n - 1)
         IN  shorter \cup {Append(l, w) : l \in {m \in shorter : Len(m) = n - 1},
                                          w \in WordSet}

Samples ==
    { \* let x := 1 ;
      <<Kw("Let"), WordX, Kw("ColonEqual"), Word1, Kw("Semicolon")>>,
      \* print "a" .. x + 1 * 2 - y / 2 % 1 // 2
      <<Kw("Print"), Word("String", AtomQuotedA), Kw("DoubleDot"), WordX,
        Kw("Plus"), Word1, Kw("Star"), Word2, Kw("Minus"), WordY, Kw("Slash"),
        Word2, Kw("Percent"), Word1, Kw("DoubleSlash"), Word2>>,
      \* if x < 1 { print x } else if true { x } else { y := 1 }
      <<Kw("If"), WordX, Kw("Less"), Word1, Kw("BraceOpen"), Kw("Print"), WordX,
        Kw("BraceClose"), Kw("Else"), Kw("If"), Kw("True"), Kw("BraceOpen"),
        WordX, Kw("BraceClose"), Kw("Else"), Kw("BraceOpen"), WordY,
        Kw("ColonEqual"), Word1, Kw("BraceClose")>>,
      \* while false { x ( ) ; x ( 1 ) x ( 1 , 2 ) x ( 1 , ) }
      <<Kw("While"), Kw("False"), Kw("BraceOpen"),
        WordX, Kw("ParenOpen"), Kw("ParenClose"), Kw("Semicolon"),
        WordX, Kw("ParenOpen"), Word1, Kw("ParenClose"),
        WordX, Kw("ParenOpen"), Word1, Kw("Comma"), Word2, Kw("ParenClose"),
        WordX, Kw("ParenOpen"), Word1, Kw("Comma"), Kw("ParenClose"),
        Kw("BraceClose")>>,
      \* fn x ( y , ) { print [ ] }
      <<Kw("Fn"), WordX, Kw("ParenOpen"), WordY, Kw("Comma"), Kw("ParenClose"),
        Kw("BraceOpen"), Kw("Print"), Kw("BracketOpen"), Kw("BracketClose"),
        Kw("BraceClose")>>,
      \* print [ 1 , 2 , ] [ 0 ]   (the 0 written 1)
      <<Kw("Print"), Kw("BracketOpen"), Word1, Kw("Comma"), Word2, Kw("Comma"),
        Kw("BracketClose"), Kw("BracketOpen"), Word1, Kw("BracketClose")>>,
      \* print [ 1 ] ; print [ 1 , 2 ]
      <<Kw("Print"), Kw("BracketOpen"), Word1, Kw("BracketClose"),
        Kw("Semicolon"), Kw("Print"), Kw("BracketOpen"), Word1, Kw("Comma"),
        Word2, Kw("BracketClose")>>,
      \* print - ( not x ** 2 )
      <<Kw("Print"), Kw("Minus"), Kw("ParenOpen"), Kw("Not"), WordX,
        Kw("DoubleStar"), Word2, Kw("ParenClose")>>,
      \* x < y == 1
      <<WordX, Kw("Less"), WordY, Kw("DoubleEqual"), Word1>>,
      \* x >= y != 1
      <<WordX, Kw("GreaterEqual"), WordY, Kw("BangEqual"), Word1>>,
      \* ( x < y ) > 1
      <<Kw("ParenOpen"), WordX, Kw("Less"), WordY, Kw("ParenClose"),
        Kw("Greater"), Word1>>,
      \* x := y < 1 := 2
      <<WordX, Kw("ColonEqual"), WordY, Kw("Less"), Word1, Kw("ColonEqual"),
        Word2>>,
      \* print fn
      <<Kw("Print"), Kw("Fn")>>,
      \* print nil
      <<Kw("Print"), Kw("Nil")>>,
      \* print 1 }
      <<Kw("Print"), Word1, Kw("BraceClose")>> }

\* the tokens of a list of words, each one column wide, and the Eof
Lexed(words) ==
    [i \in 1..(Len(words) + 1) |->
        IF i <= Len(words)
        THEN Token(TokenPos(1, i), words[i].token_type, words[i].lexeme)
        ELSE Token(TokenPos(1, i), "Eof", NoLexeme)]

TokenStreams == {Lexed(words) : words \in WordLists(MaxTokens) \cup Samples}

InitParse ==
    /\ FrontIdle
    /\ tokens \in TokenStreams
    /\ peek_pos = 0 /\ parse_status = "new" /\ parse_error = <<>>
    /\ prog = <<>> /\ todo = <<>>
    /\ code = <<>> /\ code_map = <<>>
    /\ current_source_position = TokenPos(1, 1)
    /\ locals = <<>> /\ scope_level = 0
    /\ num_consts = <<>> /\ num_consts_map = <<>>
    /\ string_data = <<>> /\ string_data_map = <<>>
    /\ functions = <<>>
    /\ cg_status = "new" /\ cg_error = <<>>
    /\ stack = <<>> /\ ip = 0 /\ fp = 0 /\ stdout = <<>>
    /\ curr_func_index = 0
    /\ status = "idle" /\ error = <<>>
    /\ dropped = FALSE
    /\ mem_manager = MemoryManager_new
    /\ last_op = NoMemOp
    /\ spans = {} /\ scope_chain = <<>> /\ entered = {} /\ shadow = <<>>
    /\ frames = <<>>

genVars == <<todo, code, code_map, current_source_position, locals,
             scope_level, num_consts, num_consts_map, string_data,
             string_data_map, functions, cg_status, cg_error>>

\* Parser::new lexes the first token into peek_token
ParserNew ==
    /\ parse_status = "new"
    /\ peek_pos' = 1
    /\ parse_status' = "ready"
    /\ UNCHANGED <<frontVars, tokens, parse_error, prog, genVars, vmVars,
                   last_op, ghostVars>>

\* parse_program: Ok(program), the first ParseError, or a panic
ParseProgram ==
    /\ parse_status = "ready"
    /\ LET result == ParserParseProgram(tokens, peek_pos)
       IN  /\ peek_pos' = result.pos
           /\ parse_status' = IF result.ok THEN "ok"
                              ELSE IF result.err.error = "panic" THEN "panic"
                              ELSE "err"
           /\ parse_error' = result.err
           /\ prog' = result.val
    /\ UNCHANGED <<frontVars, tokens, genVars, vmVars, last_op, ghostVars>>

NextParse == ParserNew \/ ParseProgram

SpecParse == InitParse /\ [][NextParse]_vars

---------------------------------------------------------------------------
(* The emitters of operand widths, applied to a generator of any size:    *)
(* SpecEmit draws the number of constants the function already holds and  *)
(* the slot or the literal of each call                                   *)

MaxEmitCode == 4    \* bytes of code after which SpecEmit emits no more

\* slots at both sides of the u8 and of the u16 limit
LocalIndices ==
    {0, 1, U8_MAX - 1, U8_MAX, U8_MAX + 1, U16_MAX, U16_MAX + 1}

\* sizes of num_consts at both sides of the u8 and of the u16 limit
NumConstSizes == {0, U8_MAX, U8_MAX + 1, U16_MAX, U16_MAX + 1}

\* the lexeme of the k-th earlier literal of the function: an atom past the
\* lexemes that big_string spells out
EarlierLexeme(k) == Atom(Len(big_string) + k, Len(big_string) + k + 1)

\* the value of each earlier literal
EarlierNumber == VNumber(300)

\* the number literals emitted under SpecEmit: a NumberExpr's value and lexeme
NumberLiterals ==
    {<<ParseNumber(run_on_str(a)), a>> :
        a \in {Atom0, Atom1, Atom300, AtomHalf, AtomOnePointZero}}

EmitOp(name, args) == [name |-> name, args |-> args]

InitEmit ==
    /\ ParserIdle
    /\ prog = <<>> /\ todo = <<>>
    /\ code = <<>> /\ code_map = <<>>
    /\ current_source_position = TokenPos(1, 1)
    /\ locals = <<>> /\ scope_level = 0
    /\ \E n \in NumConstSizes :
          /\ num_consts = [k \in 1..n |-> EarlierNumber]
          /\ num_consts_map =
                 [a \in {EarlierLexeme(k) : k \in 0..(n - 1)} |->
                     a.start_index - Len(big_string)]
    /\ string_data = <<>> /\ string_data_map = <<>>
    /\ functions = <<>>
    /\ cg_status = "ok" /\ cg_error = <<>>
    /\ stack = <<>> /\ ip = 0 /\ fp = 0 /\ stdout = <<>>
    /\ curr_func_index = 0
    /\ status = "idle" /\ error = <<>>
    /\ dropped = FALSE
    /\ mem_manager = MemoryManager_new
    /\ last_op = EmitOp("new", <<>>)
    /\ spans = {} /\ scope_chain = <<>> /\ entered = {} /\ shadow = <<>>
    /\ frames = <<>>

\* one call of an emitter on the generator
Emitted(name, args, G) ==
    /\ BecomesGen(G)
    /\ last_op' = EmitOp(name, args)
    /\ UNCHANGED <<frontVars, parseVars, prog, todo, vmVars, ghostVars>>

EmitGetLocal ==
    /\ cg_status = "ok"
    /\ Len(code) < MaxEmitCode
    /\ \E index \in LocalIndices :
          Emitted("emit_get_local_instruction", <<index>>,
                  emit_get_local_instruction(Gen, index))

EmitSetLocal ==
    /\ cg_status = "ok"
    /\ Len(code) < MaxEmitCode
    /\ \E index \in LocalIndices :
          Emitted("emit_set_local_instruction", <<index>>,
                  emit_set_local_instruction(Gen, index))

EmitLoadNumber ==
    /\ cg_status = "ok"
    /\ Len(code) < MaxEmitCode
    /\ \E literal \in NumberLiterals :
          Emitted("emit_load_number_instruction", literal,
                  emit_load_number_instruction(Gen, literal[1], literal[2]))

NextEmit == EmitGetLocal \/ EmitSetLocal \/ EmitLoadNumber

SpecEmit == InitEmit /\ [][NextEmit]_vars

---------------------------------------------------------------------------
(* SpecIntern: one interner, asked to intern texts and to cut the atoms    *)
(* it has handed out, in any order                                         *)

MaxInternLen == 2   \* longest text interned under SpecIntern
MaxBigString == 3   \* longest buffer of the interner under SpecIntern
MaxHandles == 3     \* atoms handed out in one run under SpecIntern

\* the texts over a and b of at most n characters
RECURSIVE TextsUpTo(_)
TextsUpTo(n) ==
    IF n = 0 THEN {<<>>}
    ELSE TextsUpTo(n - 1)
            \cup {Append(t, c) : t \in TextsUpTo(n - 1), c \in {"a", "b"}}

\* an atom handed out: by intern for a text, or by cut
Handle(atom, by, text) == [atom |-> atom, by |-> by, text |-> text]

InternOp(name, args, atom) == [name |-> name, args |-> args, atom |-> atom]

InitIntern ==
    /\ interner = RCInterner_new /\ atoms = {}
    /\ lexer = <<>> /\ lex_pc = "none" /\ lexed = <<>>
    /\ tokens = <<>> /\ peek_pos = 0 /\ parse_status = "none"
    /\ parse_error = <<>>
    /\ prog = <<>> /\ todo = <<>>
    /\ code = <<>> /\ code_map = <<>>
    /\ current_source_position = TokenPos(1, 1)
    /\ locals = <<>> /\ scope_level = 0
    /\ num_consts = <<>> /\ num_consts_map = <<>>
    /\ string_data = <<>> /\ string_data_map = <<>>
    /\ functions = <<>>
    /\ cg_status = "new" /\ cg_error = <<>>
    /\ stack = <<>> /\ ip = 0 /\ fp = 0 /\ stdout = <<>>
    /\ curr_func_index = 0
    /\ status = "idle" /\ error = <<>>
    /\ dropped = FALSE
    /\ mem_manager = MemoryManager_new
    /\ last_op = InternOp("new", <<>>, Atom(0, 0))
    /\ spans = {} /\ scope_chain = <<>> /\ entered = {} /\ shadow = <<>>
    /\ frames = <<>>

restVars == <<lexer, lex_pc, lexed, parseVars, prog, genVars, vmVars,
              ghostVars>>

\* interner.intern(text)
Intern ==
    /\ last_op.name # "panic"
    /\ Cardinality(atoms) < MaxHandles
    /\ \E text \in TextsUpTo(MaxInternLen) :
          LET r == intern(interner, text)
          IN  /\ Len(r.I.big_string) <= MaxBigString
              /\ interner' = r.I
              /\ atoms' = atoms \cup {Handle(r.atom, "intern", text)}
              /\ last_op' = InternOp("intern", <<text>>, r.atom)
    /\ UNCHANGED restVars

\* h.cut(cut_start, cut_end) for an atom h handed out before
Cut ==
    /\ last_op.name # "panic"
    /\ Cardinality(atoms) < MaxHandles
    /\ \E h \in atoms, cut_start \in 0..MaxInternLen, cut_end \in 0..MaxInternLen :
          LET r == Atom_cut(interner, h.atom, cut_start, cut_end)
          IN  /\ interner' = r.I
              /\ atoms' = IF r.panic # "" THEN atoms
                          ELSE atoms \cup {Handle(r.atom, "cut",
                                                  Slice(interner, r.atom))}
              /\ last_op' = IF r.panic # ""
                            THEN InternOp("panic", <<h.atom, cut_start, cut_end>>,
                                          h.atom)
                            ELSE InternOp("cut", <<h.atom, cut_start, cut_end>>,
                                          r.atom)
    /\ UNCHANGED restVars

NextIntern == Intern \/ Cut

SpecIntern == InitIntern /\ [][NextIntern]_vars

---------------------------------------------------------------------------
(* SpecLex: a lexer over a source is asked for tokens, one lex_token call  *)
(* after the other; a call proceeds one loop iteration at a time, and a    *)
(* call that has begun keeps running                                       *)

MaxSource == 3      \* longest source lexed under SpecLex

LexChars == {"a", "1", "\"", "#", "/", " ", "\n", "."}

RECURSIVE SourcesUpTo(_)
SourcesUpTo(n) ==
    IF n = 0 THEN {<<>>}
    ELSE SourcesUpTo(n - 1)
            \cup {Append(t, c) : t \in SourcesUpTo(n - 1), c \in LexChars}

\* sources with keywords, operators of two characters and a full number
SampleSources ==
    { <<"l", "e", "t", " ", "x", " ", ":", "=", " ", "1", ".", "5">>,
      <<"i", "f", " ", "x", "<", "=", "y", "{", "}">>,
      <<"p", "r", "i", "n", "t", " ", "\"", "a", "\"", ".", ".", "x">>,
      <<"#", "/", "#", "/", "a", "/", "#", "/", "#", "x">>,
      <<"x", "_", "1", "=", "=", "!", "=", "*", "*", "/", "/", ">", ";">> }

Sources == SourcesUpTo(MaxSource) \cup SampleSources

LexPc(at, comment_level, token_type) ==
    [at |-> at, comment_level |-> comment_level, token_type |-> token_type]

InitLex ==
    /\ \E source_string \in Sources :
          LET r == Lexer_new(source_string, RCInterner_new)
          IN  lexer = r.L /\ interner = r.I
    /\ atoms = {}
    /\ lex_pc = LexPc("idle", 0, "") /\ lexed = <<>>
    /\ tokens = <<>> /\ peek_pos = 0 /\ parse_status = "none"
    /\ parse_error = <<>>
    /\ prog = <<>> /\ todo = <<>>
    /\ code = <<>> /\ code_map = <<>>
    /\ current_source_position = TokenPos(1, 1)
    /\ locals = <<>> /\ scope_level = 0
    /\ num_consts = <<>> /\ num_consts_map = <<>>
    /\ string_data = <<>> /\ string_data_map = <<>>
    /\ functions = <<>>
    /\ cg_status = "new" /\ cg_error = <<>>
    /\ stack = <<>> /\ ip = 0 /\ fp = 0 /\ stdout = <<>>
    /\ curr_func_index = 0
    /\ status = "idle" /\ error = <<>>
    /\ dropped = FALSE
    /\ mem_manager = MemoryManager_new
    /\ last_op = NoMemOp
    /\ spans = {} /\ scope_chain = <<>> /\ entered = {} /\ shadow = <<>>
    /\ frames = <<>>

backVars == <<parseVars, prog, genVars, vmVars, last_op, ghostVars>>

\* the lexer moves to where a step operator leaves it
LexMoves(r) ==
    /\ lexer' = r.L
    /\ lex_pc' = LexPc(r.at, r.comment_level, r.token_type)
    /\ UNCHANGED <<interner, atoms, lexed, backVars>>

\* a caller calls lex_token: one token more than the source has characters
\* shows the Eof, and one more the Eof after it
LexToken ==
    /\ lex_pc.at = "idle"
    /\ Len(lexed) < Len(lexer.source_string) + 2
    /\ lex_pc' = LexPc("skip_whitespace", 0, "")
    /\ UNCHANGED <<interner, atoms, lexer, lexed, backVars>>

SkipWhitespace ==
    /\ lex_pc.at = "skip_whitespace"
    /\ LexMoves(skip_whitespace(lexer))

BlockComment ==
    /\ lex_pc.at = "block_comment"
    /\ LexMoves(block_comment(lexer, lex_pc.comment_level))

LineComment ==
    /\ lex_pc.at = "line_comment"
    /\ LexMoves(line_comment(lexer))

Scan ==
    /\ lex_pc.at = "scan"
    /\ LexMoves(scan(lexer))

FinishNumber ==
    /\ lex_pc.at \in {"finish_number", "finish_fraction"}
    /\ LexMoves(finish_number(lexer, lex_pc.at = "finish_fraction"))

FinishString ==
    /\ lex_pc.at = "finish_string"
    /\ LexMoves(finish_string(lexer))

FinishIdentifier ==
    /\ lex_pc.at = "finish_identifier"
    /\ LexMoves(finish_identifier(lexer))

\* make_token and the return of lex_token
LexReturns ==
    /\ lex_pc.at = "return"
    /\ LET r == make_token(lexer, interner, lex_pc.token_type)
           token == IF lex_pc.token_type = "Identifier"
                    THEN [r.token EXCEPT
                            !.token_type = KeywordType(lexer, r.token.lexeme)]
                    ELSE r.token
       IN  /\ interner' = r.I
           /\ lexed' = Append(lexed, token)
    /\ lex_pc' = LexPc("idle", 0, "")
    /\ UNCHANGED <<atoms, lexer, backVars>>

\* the steps inside a call of lex_token
LexSteps ==
    \/ SkipWhitespace \/ BlockComment \/ LineComment \/ Scan
    \/ FinishNumber \/ FinishString \/ FinishIdentifier \/ LexReturns

NextLex == LexToken \/ LexSteps

SpecLex == InitLex /\ [][NextLex]_vars /\ WF_vars(LexSteps)

---------------------------------------------------------------------------
(* SpecCall: the VM running hand-built executables that call a function,  *)
(* as tests/function.rs does.  The code generator emits no call; the      *)
(* executables follow the frame layout Return pops: the return address,   *)
(* the function to return to, the callee, the arguments.                  *)

MaxArgs == 2        \* arguments passed and parameters declared under SpecCall
MaxPrelude == 2     \* values the caller holds below the call under SpecCall

CallStringData == <<"a", "b", "c">>

Op(instruction) == <<as_u8(instruction)>>

RECURSIVE Times(_, _)
Times(n, bytes) == IF n = 0 THEN <<>> ELSE bytes \o Times(n - 1, bytes)

\* a code map long enough for every read of run (the test's has 1000
\* entries)
CallCodeMap(fcode) == [i \in 1..(Len(fcode) + 1) |-> TokenPos(1, 1)]

\* the callee, as add of the test: it reads its parameters, returns a value
CalleeCode(param_count) ==
    (CASE param_count = 0 -> Op("LoadLitNum") \o <<9>>
       [] param_count = 1 -> Op("GetLocal") \o <<1>>
       [] OTHER -> Op("GetLocal") \o <<1>> \o Op("GetLocal") \o <<2>>
                      \o Op("Add"))
       \o Op("Return") \o Op("LoadNil") \o Op("Return")

\* the caller: prelude values of its own, then (when framed) the return
\* address and its own function value, then the callee, arg_count
\* arguments and Invoke; at the return address it prints the value returned
\* and then (when reads) reads its first local
CallerCode(prelude, arg_count, framed, reads) ==
    LET before == Times(prelude, Op("LoadLitNum") \o <<7>>)
        entry == Op("LoadFunction") \o to_le_bytes(0, 4)
                    \o Times(arg_count, Op("LoadLitNum") \o <<1>>)
                    \o Op("Invoke") \o <<arg_count>>
        ret == Len(before) + (IF framed THEN 14 ELSE 0) + Len(entry)
        frame == IF framed
                 THEN Op("LoadReturnAdress") \o to_le_bytes(ret, 8)
                         \o Op("LoadFunction") \o to_le_bytes(1, 4)
                 ELSE <<>>
    IN  before \o frame \o entry \o Op("Print")
           \o (IF reads THEN Op("GetLocal") \o <<0>> \o Op("Pop") ELSE <<>>)

CallExecutable(prelude, arg_count, param_count, framed, reads) ==
    << CahnFunction(param_count, CalleeCode(param_count),
                    CallCodeMap(CalleeCode(param_count)), 0, 3),
       CahnFunction(0, CallerCode(prelude, arg_count, framed, reads),
                    CallCodeMap(CallerCode(prelude, arg_count, framed, reads)),
                    0, 1) >>

\* after VM::new on one of the executables
InitCall ==
    /\ ParserIdle
    /\ prog = <<>> /\ todo = <<>>
    /\ code = <<>> /\ code_map = <<>>
    /\ current_source_position = <<1, 1>>
    /\ locals = <<>> /\ scope_level = 0
    /\ num_consts = <<>> /\ num_consts_map = <<>>
    /\ string_data = CallStringData /\ string_data_map = <<>>
    /\ \E prelude \in 0..MaxPrelude, arg_count \in 0..MaxArgs,
          param_count \in 0..MaxArgs, framed \in BOOLEAN, reads \in BOOLEAN :
          functions = CallExecutable(prelude, arg_count, param_count, framed,
                                     reads)
    /\ cg_status = "done" /\ cg_error = <<>>
    /\ stack = <<>> /\ ip = 0 /\ fp = 0 /\ stdout = <<>>
    /\ curr_func_index = Len(functions) - 1
    /\ status = "running" /\ error = <<>>
    /\ dropped = FALSE
    /\ mem_manager = MemoryManager_new
    /\ last_op = NoMemOp
    /\ spans = {} /\ scope_chain = <<>> /\ entered = {} /\ shadow = <<>>
    /\ frames = <<>>

NextCall == VMRunInstruction \/ VMRunReturns

SpecCall == InitCall /\ [][NextCall]_vars

---------------------------------------------------------------------------
(* Properties of the code generator and of the run of compiled code,      *)
(* checked under Spec                                                     *)

\* C2: run on a compiled script ends in Ok or in a RuntimeError and in no
\* other way, every read of code and code_map staying inside the function:
\* the run never panics, is never undefined and is never killed
C2_RunReturnsOkOrError == status \in {"idle", "running", "ok", "error"}

\* what the code of a node leaves on the stack: a value for an expression
\* and for a variable declaration (the value is the storage of the local)
NetEffect(span) ==
    IF span.kind = "Expr" \/ span.node = "VarDecl" THEN 1 ELSE 0

C5_CodeMapLength ==
    /\ Len(code_map) = Len(code)
    /\ \A i \in DOMAIN functions :
          Len(functions[i].code_map) = Len(functions[i].code)

\* an executable has been generated whose code holds the patched jumps of
\* an if statement and of a while statement
C5_Witness ==
    /\ cg_status = "done"
    /\ \E sp \in spans : sp.node = "If"
    /\ \E sp \in spans : sp.node = "While"
    /\ Len(Last(functions).code) > 20

\* the instruction the VM is about to read
NextInstruction ==
    IF /\ status = "running" /\ cg_status = "done" /\ ~dropped
       /\ ip < Len(curr_func.code)
       /\ curr_func.code[ip + 1] + 1 \in DOMAIN Instruction
    THEN Instruction[curr_func.code[ip + 1] + 1]
    ELSE "none"

\* C9: the store of an assignment (the SetLocal k that follows the Dup)
\* finds the value of the source twice on top of the stack, writes it to
\* stack[fp + k], and leaves one copy of it on top; no other slot changes
C9_AssignmentStores ==
    [][(NextInstruction = "SetLocal" /\ status' = "running")
       => LET k == curr_func.code[ip + 2]
              value == Last(stack)
          IN  /\ Len(stack) >= 2
              /\ stack[Len(stack) - 1] = value
              /\ Len(stack') = Len(stack) - 1
              /\ fp + k + 1 < Len(stack')
              /\ stack'[fp + k + 1] = value
              /\ Last(stack') = value
              /\ \A i \in DOMAIN stack' :
                    i # fp + k + 1 => stack'[i] = stack[i]]_vars

\* the code of `x := x + 1` has just stored 2 in slot 1 and left 2 on top
C9_Witness ==
    /\ status = "running" /\ ip >= 3
    /\ curr_func.code[ip - 2] = as_u8("Dup")
    /\ curr_func.code[ip - 1] = as_u8("SetLocal")
    /\ curr_func.code[ip] = 1
    /\ stack = <<VFunction(0), VNumber(2), VNumber(2)>>

\* the names declared in the open blocks, outermost block first, in the
\* order of their declarations
RECURSIVE Flat(_)
Flat(chain) == IF chain = <<>> THEN <<>> ELSE chain[1] \o Flat(Tail(chain))

\* the slot of the most recent declaration of name in an open block (slot 0
\* is the anonymous local, the declarations follow it), -1 if there is none
DeclaredSlot(name) ==
    LET declared == {p \in DOMAIN Flat(scope_chain) : Flat(scope_chain)[p] = name}
    IN  IF declared = {} THEN -1
        ELSE CHOOSE p \in declared : \A q \in declared : q <= p

\* the identifier the next step of the generator resolves, <<>> if none
Resolving ==
    IF cg_status = "ok" /\ todo # <<>>
    THEN IF todo[1].task = "expr" /\ todo[1].node.Expr = "Var"
         THEN <<todo[1].node.identifier>>
         ELSE IF todo[1].task = "assign_store"
         THEN <<todo[1].node.left.identifier>>
         ELSE <<>>
    ELSE <<>>

\* C10: a reference to a variable, read or assigned, is compiled to the
\* slot of the most recent declaration of its name in a block still open,
\* which is a named local; if no open block declares the name, code
\* generation fails with UnresolvedVariable carrying the identifier token
\* and emits nothing
C10_ResolvesInnermost ==
    [][Resolving # <<>>
       => LET identifier == Resolving[1]
              slot == DeclaredSlot(identifier.lexeme)
          IN  IF slot = -1
              THEN /\ cg_status' = "err"
                   /\ cg_error' = UnresolvedVariable(identifier)
                   /\ code' = code
              ELSE /\ cg_status' = "ok"
                   /\ locals[slot + 1].name = <<identifier.lexeme>>
                   /\ code' = code \o
                        (IF todo[1].task = "expr"
                         THEN <<as_u8("GetLocal"), slot>>
                         ELSE <<as_u8("Dup"), as_u8("SetLocal"), slot>>)]_vars

\* x is declared in the outermost block and again in an inner block, where
\* an assignment to x was compiled to slot 3; the inner block has ended and
\* a reference to x has just been compiled to slot 1
C10_Witness ==
    /\ cg_status = "ok"
    /\ scope_chain = <<<<AtomX>>, <<AtomY>>>>
    /\ \E sp \in spans : sp.node = "Block"
    /\ \E i \in DOMAIN code :
          /\ i + 2 <= Len(code)
          /\ code[i] = as_u8("Dup") /\ code[i + 1] = as_u8("SetLocal")
          /\ code[i + 2] = 3
    /\ SubSeq(code, Len(code) - 1, Len(code)) = <<as_u8("GetLocal"), 1>>

\* C11: once the VM has entered the code of an if statement, execution
\* continues at the first byte after the statement (unless a RuntimeError
\* is returned): the run does not panic at an instruction of the statement
C11_IfRunsToItsEnd ==
    status = "panic"
        => \A r \in entered :
              r.span.node = "If" => ~(r.span.start < ip /\ ip <= r.span.end)

\* the offset behind the condition of the if or while statement sp: the
\* end of the longest expression that begins where the statement begins
CondEnd(sp) ==
    LET ends == {x.end : x \in {y \in spans : /\ y.kind = "Expr"
                                               /\ y.start = sp.start
                                               /\ y.end < sp.end}}
    IN  CHOOSE e \in ends : \A f \in ends : f <= e

\* length of a jump instruction: the opcode byte and its u32 operand
JumpLen == 1 + 4

\* C12: in the code of `while c { body }` the JumpIfFalse behind c pops
\* the value of c and goes to the body if it is truthy and to the first
\* byte after the back-jump if it is not; the Jump behind the body goes
\* back to the first byte of c; and whenever execution is at the first
\* byte of c the stack is as deep as when the loop was entered
C12_WhileLoops ==
    [][\A w \in {sp \in spans : sp.node = "While"} :
          (NextInstruction # "none" /\ status' = "running")
          => /\ ip = CondEnd(w)
                => /\ NextInstruction = "JumpIfFalse"
                   /\ stack # <<>>
                   /\ stack' = Front(stack)
                   /\ ip' = IF is_truthy(Last(stack))
                            THEN CondEnd(w) + JumpLen ELSE w.end
                   /\ \E b \in spans : /\ b.node = "Block"
                                        /\ b.start = CondEnd(w) + JumpLen
                                        /\ b.end = w.end - JumpLen
             /\ ip = w.end - JumpLen
                => /\ NextInstruction = "Jump"
                   /\ ip' = w.start
                   /\ stack' = stack
             /\ ip' = w.start
                => \A r \in entered' : r.span = w => Len(stack') = r.depth]_vars

\* a loop whose body declares a local has run its body once (the local of
\* slot 1 is now 2) and is back at the first byte of its condition, the
\* stack as deep as at the entry of the loop
C12_Witness ==
    /\ status = "running"
    /\ stack = <<VFunction(0), VNumber(2)>>
    /\ \E r \in entered :
          /\ r.span.node = "While" /\ ip = r.span.start /\ r.depth = 2
          /\ \E d \in spans : /\ d.node = "VarDecl"
                               /\ r.span.start < d.start /\ d.end < r.span.end


ArithmeticInstructions == {"Add", "Sub", "Mul", "Div", "Modulo"}

\* C13: an arithmetic instruction (Add, Sub, Mul, Div, Modulo) that finds an
\* operand that is not a Number makes the run return a TypeError; the step
\* writes nothing to the output, and once the error is returned no later
\* step executes an instruction or changes the output
C13_ArithmeticTypeError ==
    [][/\ (/\ NextInstruction \in ArithmeticInstructions
           /\ Len(stack) >= 2
           /\ ~(IsNumber(stack[Len(stack)]) /\ IsNumber(stack[Len(stack) - 1])))
          => /\ status' = "error"
             /\ error'.type = "TypeError"
             /\ stdout' = stdout
       /\ status = "error"
          => /\ status' = "error" /\ error' = error
             /\ stdout' = stdout /\ ip' = ip]_vars

\* the run of `print 300  print 1 * true` has returned the TypeError of Mul
\* and been dropped; the output still holds the 300 of the first statement
C13_Witness ==
    /\ status = "error" /\ error.type = "TypeError" /\ error.message = "Mul"
    /\ stdout # <<>>
    /\ dropped

\* C14: ListGetIndex pops the index and the list; a list operand that is not
\* a heap list or an index that is not a Number gives TypeError; an index
\* below 0 or not below the length gives IndexOutOfBounds with the index and
\* the length; otherwise the element at the index replaces the two operands
\* and the heap is unchanged
C14_ListGetIndexChecked ==
    [][(/\ NextInstruction = "ListGetIndex" /\ Len(stack) >= 2
        /\ ~Dangling(stack[Len(stack) - 1], mem_manager))
       => LET index == stack[Len(stack)]
              list == stack[Len(stack) - 1]
              is_list == /\ IsHeap(list)
                         /\ IsHList(mem_manager.cells[list.ptr].payload)
              elems == mem_manager.cells[list.ptr].payload.list
          IN  IF ~is_list \/ ~IsNumber(index)
              THEN status' = "error" /\ error'.type = "TypeError"
              ELSE IF \/ f64_lt(index, VNumber(0))
                      \/ ~f64_lt(index, VNumber(Len(elems)))
              THEN /\ status' = "error"
                   /\ error' = IndexOutOfBounds(index, Len(elems))
              ELSE /\ status' = "running"
                   /\ stack' = Append(SubSeq(stack, 1, Len(stack) - 2),
                                      elems[as_usize(index) + 1])
                   /\ mem_manager' = mem_manager]_vars

\* structural equality of two values: the same variant with equal contents;
\* heap strings by their characters, heap lists element by element
RECURSIVE StructurallyEqual(_, _, _, _)
StructurallyEqual(left, right, M, depth) ==
    IF IsHeap(left) /\ IsHeap(right)
    THEN LET l == M.cells[left.ptr].payload
             r == M.cells[right.ptr].payload
         IN  IF IsHList(l) /\ IsHList(r)
             THEN /\ Len(l.list) = Len(r.list)
                  /\ depth > 0
                  /\ \A k \in 1..Len(l.list) :
                        StructurallyEqual(l.list[k], r.list[k], M, depth - 1)
             ELSE l = r
    ELSE ValueEq(left, right)

\* lists of the programs nest at most this deep
ListDepth == MaxListLen + 1

\* C15: Equal pops two values and pushes Bool(true) exactly when they are
\* structurally equal (same variant, equal contents; heap strings by
\* content, heap lists by length and pairwise equal elements), and never
\* returns an error
C15_EqualIsStructural ==
    [][(/\ NextInstruction = "Equal" /\ Len(stack) >= 2
        /\ ~Dangling(stack[Len(stack)], mem_manager)
        /\ ~Dangling(stack[Len(stack) - 1], mem_manager))
       => /\ status' = "running"
          /\ stack' = Append(SubSeq(stack, 1, Len(stack) - 2),
                             VBool(StructurallyEqual(stack[Len(stack) - 1],
                                                     stack[Len(stack)],
                                                     mem_manager, ListDepth)))]_vars

---------------------------------------------------------------------------
(* Properties of the parser, checked under SpecParse *)

ParseReturned == parse_status \in {"ok", "err", "panic"}

\* the number of `{` the source starts with
RECURSIVE OpenBraces(_)
OpenBraces(toks) ==
    IF toks # <<>> /\ Head(toks).token_type = "BraceOpen"
    THEN 1 + OpenBraces(Tail(toks))
    ELSE 0

IsOperand(token) == token.token_type \in {"Identifier", "Number"}

\* the source is, after k opening braces, operand op1 operand op2 with
\* both operators of the class ops
StartsWithChain(toks, k, ops) ==
    /\ Len(toks) >= k + 4
    /\ IsOperand(toks[k + 1]) /\ toks[k + 2].token_type \in ops
    /\ IsOperand(toks[k + 3]) /\ toks[k + 4].token_type \in ops

\* C16: a source whose first expression is `a < b < c` (any two comparison
\* operators) is answered with ChainingComparisonOperator carrying the
\* second operator token, and `a := b := c` with ChainingAssignmentOperator
\* carrying the second `:=`; the parser has stopped right behind that
\* token, and no syntax tree is returned with this or any other error
C16_ChainingRejected ==
    ParseReturned
        => LET k == OpenBraces(tokens)
           IN  /\ StartsWithChain(tokens, k, COMPARISON_OPERATORS)
                    => /\ parse_status = "err"
                       /\ parse_error = ChainingComparisonOperator(tokens[k + 4])
                       /\ peek_pos = k + 5
               /\ StartsWithChain(tokens, k, {"ColonEqual"})
                    => /\ parse_status = "err"
                       /\ parse_error = ChainingAssignmentOperator(tokens[k + 4])
                       /\ peek_pos = k + 5
               /\ parse_status # "ok" => prog = <<>>

\* `x < x < x` has been answered with the error at the second `<`
C16_Witness ==
    /\ parse_status = "err"
    /\ Len(tokens) = 6
    /\ StartsWithChain(tokens, 0, {"Less"}) /\ IsOperand(tokens[5])
    /\ parse_error.error = "ChainingComparisonOperator"
    /\ parse_error.token.pos = TokenPos(1, 4)
    /\ prog = <<>>

\* the source is the one expression a op1 b op2 c
IsTwoOperatorExpr(toks, op1, op2) ==
    /\ Len(toks) = 6
    /\ IsOperand(toks[1]) /\ toks[2].token_type = op1
    /\ IsOperand(toks[3]) /\ toks[4].token_type = op2
    /\ IsOperand(toks[5])

\* the program of one expression statement
OneExpression(expr, eof) == ProgramStmt(StmtList(<<ExprStmt(expr)>>), eof)

\* C17: `and` binds tighter than `or`: `a or b and c` parses as
\* (or a (and b c)) and `a and b or c` as (or (and a b) c)
C17_AndBindsTighter ==
    ParseReturned
        => LET a == VarExpr(tokens[1])
               b == VarExpr(tokens[3])
               c == VarExpr(tokens[5])
           IN  /\ IsTwoOperatorExpr(tokens, "Or", "And")
                    => /\ parse_status = "ok"
                       /\ prog = OneExpression(
                                    InfixExpr(a, tokens[2],
                                              InfixExpr(b, tokens[4], c)),
                                    tokens[6])
               /\ IsTwoOperatorExpr(tokens, "And", "Or")
                    => /\ parse_status = "ok"
                       /\ prog = OneExpression(
                                    InfixExpr(InfixExpr(a, tokens[2], b),
                                              tokens[4], c),
                                    tokens[6])

\* C18: a source with no statement and a source that is the block `{}`
\* parse to a program of zero statements and to a block of zero statements
C18_EmptyStatementList ==
    ParseReturned
        => /\ Len(tokens) = 1
                => parse_status = "ok" /\ prog.statements.stmts = <<>>
           /\ (/\ Len(tokens) = 3 /\ tokens[1].token_type = "BraceOpen"
               /\ tokens[2].token_type = "BraceClose")
                => /\ parse_status = "ok"
                   /\ Len(prog.statements.stmts) = 1
                   /\ prog.statements.stmts[1].Stmt = "Block"
                   /\ prog.statements.stmts[1].statements.stmts = <<>>

---------------------------------------------------------------------------
(* Properties of the emitters of operand widths, checked under SpecEmit   *)

\* the bytes the last call of an emitter appended: the code after the
\* longest instruction that fits before them
LastEmitted(length) ==
    IF Len(code) < length THEN <<>>
    ELSE SubSeq(code, Len(code) - length + 1, Len(code))

\* the opcode and operand of a local access to a slot, as the claim has
\* them: narrow up to 255, wide up to 65535, no code above
LocalAccessCode(narrow, wide, index) ==
    IF index <= U8_MAX THEN <<as_u8(narrow), index>>
    ELSE IF index <= U16_MAX THEN <<as_u8(wide)>> \o to_le_bytes(index, 2)
    ELSE <<>>

LocalAccessChecked(name, narrow, wide) ==
    last_op.name = name =>
        LET index == last_op.args[1]
            expected == LocalAccessCode(narrow, wide, index)
        IN  IF index > U16_MAX
            THEN cg_status = "panic"
            ELSE /\ cg_status = "ok"
                 /\ LastEmitted(Len(expected)) = expected
                 /\ Len(expected) = IF index <= U8_MAX THEN 2 ELSE 3

\* C19: a read and a write of a local use the narrow opcode GetLocal or
\* SetLocal with a one-byte operand for every slot from 0 to 255, the wide
\* opcode GetLocalW or SetLocalW with a two-byte operand for every slot from
\* 256 to 65535, and abort the compilation for a slot above 65535
C19_LocalOperandWidth ==
    /\ LocalAccessChecked("emit_get_local_instruction", "GetLocal", "GetLocalW")
    /\ LocalAccessChecked("emit_set_local_instruction", "SetLocal", "SetLocalW")

\* the part of C19 about reads
C19_ReadOperandWidth ==
    LocalAccessChecked("emit_get_local_instruction", "GetLocal", "GetLocalW")

\* the part of C19 about writes, for every slot but 255
C19_WriteOperandWidthBut255 ==
    (last_op.name = "emit_set_local_instruction" /\ last_op.args[1] # U8_MAX)
        => LocalAccessChecked("emit_set_local_instruction", "SetLocal",
                              "SetLocalW")

IsLitNum(number) ==
    /\ f64_le(VNumber(0), number) /\ f64_le(number, VNumber(U8_MAX))
    /\ f64_is_whole(number)

\* the instruction that loads the constant of an index, in the narrowest
\* of the three widths
LoadConstCode(index) ==
    IF index <= U8_MAX THEN <<as_u8("LoadConstNum"), index>>
    ELSE IF index <= U16_MAX
    THEN <<as_u8("LoadConstNumW")>> \o to_le_bytes(index, 2)
    ELSE <<as_u8("LoadConstNumWW")>> \o to_le_bytes(index, 4)

\* C20: an integer literal from 0 to 255 is loaded by LoadLitNum with the
\* number as operand and adds nothing to num_consts; any other literal is
\* stored in num_consts once per distinct lexeme, a later occurrence reusing
\* the index, and is loaded by the narrowest of LoadConstNum (index up to
\* 255), LoadConstNumW (up to 65535) and LoadConstNumWW
C20_NumberLiterals ==
    [][last_op'.name = "emit_load_number_instruction" =>
        LET number == last_op'.args[1]
            lexeme == last_op'.args[2]
            emitted == SubSeq(code', Len(code) + 1, Len(code'))
            known == lexeme \in DOMAIN num_consts_map
            index == IF known THEN num_consts_map[lexeme] ELSE Len(num_consts)
        IN  /\ cg_status' = "ok"
            /\ SubSeq(code', 1, Len(code)) = code
            /\ IF IsLitNum(number)
               THEN /\ emitted = <<as_u8("LoadLitNum"), number.num>>
                    /\ num_consts' = num_consts
                    /\ num_consts_map' = num_consts_map
               ELSE /\ emitted = LoadConstCode(index)
                    /\ num_consts' = IF known THEN num_consts
                                     ELSE Append(num_consts, number)
                    /\ num_consts_map' =
                           IF known THEN num_consts_map
                           ELSE (lexeme :> index) @@ num_consts_map
                    /\ num_consts'[index + 1] = number]_vars

\* a literal is loaded a second time from a table of more than 256
\* constants: its constant is reused and loaded wide
C20_Witness ==
    /\ last_op.name = "emit_load_number_instruction"
    /\ last_op.args[2] = Atom300
    /\ Len(num_consts) = U8_MAX + 2
    /\ Atom300 \in DOMAIN num_consts_map
    /\ num_consts_map[Atom300] = U8_MAX + 1
    /\ code = LoadConstCode(U8_MAX + 1) \o LoadConstCode(U8_MAX + 1)

---------------------------------------------------------------------------
(* Further properties of the code generator and of the run, checked under *)
(* Spec                                                                   *)

\* the spans of the string literals compiled so far
StringLoads == {sp \in spans : sp.kind = "Expr" /\ sp.node = "String"}

\* the (start, end) operands of the LoadStringLiteral of a span
LoadedRange(sp) ==
    <<from_le_bytes(SubSeq(code, sp.start + 2, sp.start + 5)),
      from_le_bytes(SubSeq(code, sp.start + 6, sp.start + 9))>>

\* the content of the string literals of the programs explored: "a"
LiteralContent == run_on_str(cut(AtomQuotedA, 1, 1))

\* C21: within one compilation every occurrence of a string literal with
\* the same content is emitted as LoadStringLiteral with the same (start,
\* end) range of string_data, which holds that content, and the content is
\* appended to string_data only once
C21_StringLiteralOnce ==
    /\ \A sp \in StringLoads :
          /\ sp.end = sp.start + 9
          /\ code[sp.start + 1] = as_u8("LoadStringLiteral")
          /\ LoadedRange(sp)[2] <= Len(string_data)
          /\ SubSeq(string_data, LoadedRange(sp)[1] + 1, LoadedRange(sp)[2])
                = LiteralContent
    /\ \A sp1, sp2 \in StringLoads : LoadedRange(sp1) = LoadedRange(sp2)
    /\ StringLoads # {} =>
          string_data = CahnMain \o LiteralContent

\* two occurrences of "a" have been compiled
C21_Witness ==
    /\ Cardinality(StringLoads) = 2
    /\ string_data = CahnMain \o LiteralContent

---------------------------------------------------------------------------
(* Properties of the string interner, checked under SpecIntern            *)

\* interning the same content twice returns equal handles
SameContentSameHandle ==
    \A h1, h2 \in atoms :
        (h1.by = "intern" /\ h2.by = "intern" /\ h1.text = h2.text)
            => Atom_eq(h1.atom, h2.atom)

\* intern(slice(h)) == h for the handles of the given origins
InternOfSlice(origins) ==
    \A h \in atoms :
        h.by \in origins
            => Atom_eq(intern(interner, Slice(interner, h.atom)).atom, h.atom)

\* C22: within one interner, interning the same content twice returns
\* handles that compare equal, and for every handle h the interner has
\* produced, by intern or by cut, intern(slice(h)) compares equal to h
C22_InternIsIdempotent ==
    /\ SameContentSameHandle
    /\ InternOfSlice({"intern", "cut"})

\* the part of C22 about the handles that intern returns
C22_InternedHandles ==
    /\ SameContentSameHandle
    /\ InternOfSlice({"intern"})

\* C23: a handle that cut returns compares equal to the handle that intern
\* returns for the same text from the same interner, whether the text was
\* interned before the cut or is interned after it
C23_CutIsInterned ==
    [][last_op'.name = "cut" =>
        LET text == Slice(interner', last_op'.atom)
        IN  /\ \A h \in atoms :
                   (h.by = "intern" /\ h.text = text)
                       => Atom_eq(last_op'.atom, h.atom)
            /\ Atom_eq(last_op'.atom, intern(interner', text).atom)]_vars

\* the part of C23 about a text no entry of the table stood for when the
\* cut was taken
C23_CutOfNewText ==
    [][(/\ last_op'.name = "cut"
        /\ hash_string(Slice(interner', last_op'.atom))
              \notin DOMAIN interner.strings) =>
        Atom_eq(last_op'.atom,
                intern(interner', Slice(interner', last_op'.atom)).atom)]_vars

---------------------------------------------------------------------------
(* Properties of the lexer, checked under SpecLex                         *)

\* after an Eof every token returned is an Eof
EofForever ==
    \A i, j \in DOMAIN lexed :
        (i < j /\ lexed[i].token_type = "Eof") => lexed[j].token_type = "Eof"

\* the end of the input is reached by a token exactly when it is an Eof
EofAtEnd ==
    lex_pc.at = "idle" /\ lexed # <<>> =>
        (Last(lexed).token_type = "Eof"
            <=> lexer.start_index = Len(lexer.source_string))

\* the source ends inside a string literal that lex_token is reading
InOpenString ==
    /\ lex_pc.at = "finish_string"
    /\ \A i \in (lexer.current_index + 1)..Len(lexer.source_string) :
          lexer.source_string[i] # "\""

\* every iteration of a loop of lex_token consumes a character or leaves
\* the loop: a call that has begun can take a step that changes the lexer.
\* Where this fails the call repeats one state for ever and never returns
LexStepsMakeProgress == lex_pc.at # "idle" => ENABLED <<LexSteps>>_vars

\* C24: for every source string, including one that ends inside a string
\* literal or inside a block comment, each call to lex_token returns one
\* token after finitely many steps (no call is ever at a step that leaves
\* the lexer as it is), and once the end of input has been reached every
\* later call returns Eof
C24_LexTokenTerminates ==
    /\ LexStepsMakeProgress
    /\ EofForever /\ EofAtEnd

\* the part of C24 about the sources that do not end inside a string
\* literal
C24_TerminatesOutsideStrings ==
    /\ (lex_pc.at # "idle") ~> (lex_pc.at = "idle" \/ InOpenString)
    /\ [](EofForever /\ EofAtEnd)

LocalAccessInstructions == {"GetLocal", "GetLocalW", "SetLocal", "SetLocalW"}

\* the operand of the local access the VM is about to execute
LocalOperand ==
    IF NextInstruction \in {"GetLocalW", "SetLocalW"}
    THEN curr_func.code[ip + 2] + 256 * curr_func.code[ip + 3]
    ELSE curr_func.code[ip + 2]

\* C25: whenever the VM executes a GetLocal or SetLocal k emitted for a
\* variable x, the x in scope is alive, its storage is stack[fp + k], that
\* slot lies below the stack length (below the value to store, for a
\* SetLocal) and holds the value x was declared with or last assigned; and no
\* step of the run pops or peeks an empty stack
C25_SlotsFollowTheStack ==
    [][/\ NextInstruction \in LocalAccessInstructions
          => LET name == NameAt(curr_func.code_map[ip + 1])
                 x == Innermost(shadow, name)
                 top == IF NextInstruction \in {"SetLocal", "SetLocalW"}
                        THEN Len(stack) - 1 ELSE Len(stack)
             IN  /\ x # 0
                 /\ shadow[x].slot = fp + LocalOperand + 1
                 /\ fp + LocalOperand + 1 <= top
                 /\ stack[fp + LocalOperand + 1] = shadow[x].value
       /\ (NextInstruction # "none" /\ status' = "panic")
          => error'.panic # "unwrap on None"]_vars

\* the VM is about to read the x of an inner block that shadows the x of
\* the program: both are alive, in different slots with different values,
\* and the operand is the slot of the inner one
C25_Witness ==
    /\ NextInstruction = "GetLocal"
    /\ \E i, j \in DOMAIN shadow :
          /\ i < j /\ shadow[i].name = shadow[j].name
          /\ shadow[i].value # shadow[j].value
          /\ Innermost(shadow, NameAt(curr_func.code_map[ip + 1])) = j
          /\ shadow[j].slot = fp + LocalOperand + 1
          /\ stack[shadow[j].slot] = shadow[j].value

---------------------------------------------------------------------------
(* Further properties of the memory manager, checked under SpecHeap *)

\* the objects a sequence of values points to
PtrSet(vals) == {HeapPtrs(vals)[i] : i \in DOMAIN HeapPtrs(vals)}

\* the objects that a set of objects leads to through list elements
RECURSIVE ReachFrom(_, _)
ReachFrom(M, objs) ==
    LET lists == {p \in objs : /\ ~IsFreed(M.cells[p])
                               /\ IsHList(M.cells[p].payload)}
        children == UNION {PtrSet(M.cells[p].payload.list) : p \in lists}
    IN  IF children \subseteq objs THEN objs
        ELSE ReachFrom(M, objs \cup children)

\* the step allocates an object and so runs a collection
Collects ==
    /\ ~dropped'
    /\ mem_manager'.total_allocs = mem_manager.total_allocs + 1

\* the address alloc boxes the new object at
NewObject == CHOOSE a \in BoxAddrs(mem_manager) : TRUE

\* the stack alloc takes its roots from: Concat has popped its operands
RootStack ==
    IF last_op'.name = "alloc_string" THEN SubSeq(stack, 1, Len(stack) - 2)
    ELSE stack

\* the object list when the collection starts, from the head
LinkedAtGc == <<NewObject>> \o Linked(mem_manager)

ReachableAtGc ==
    {NewObject}
        \cup ReachFrom(mem_manager, PtrSet(RootStack))

IsReachableAtGc(p) == p \in ReachableAtGc

\* C26: after the gc(roots) that an allocation runs, the object list
\* consists of exactly the objects reachable from the roots, in the order
\* they had in the list before, each with is_marked false; every other
\* object that was linked is unlinked and deallocated exactly once
C26_GcKeepsExactlyReachable ==
    [][Collects
       => /\ mem_manager'.fault = "none"
          /\ Linked(mem_manager') = SelectSeq(LinkedAtGc, IsReachableAtGc)
          /\ \A p \in LinkedSet(mem_manager') :
                ~mem_manager'.cells[p].is_marked
          /\ \A i \in DOMAIN LinkedAtGc :
                ~IsReachableAtGc(LinkedAtGc[i])
                   => IsFreed(mem_manager'.cells[LinkedAtGc[i]])
          /\ mem_manager'.total_deallocs =
                mem_manager.total_deallocs
                   + Cardinality({i \in DOMAIN LinkedAtGc :
                                     ~IsReachableAtGc(LinkedAtGc[i])})]_vars

\* a collection has just freed an object from between two objects that
\* stay linked, one of them a list reached from the stack
C26_Witness ==
    /\ last_op.name = "alloc_list"
    /\ mem_manager.total_allocs = 3 /\ mem_manager.total_deallocs = 1
    /\ Len(Linked(mem_manager)) = 2
    /\ IsFreed(mem_manager.cells[2])
    /\ Linked(mem_manager) = <<3, 1>>

---------------------------------------------------------------------------
(* Properties of calls, checked under SpecCall *)

\* the call that the Return about to execute ends
ReturningFrame == Last(frames)

\* the call was entered with the function of the caller and, below it, a
\* return address below the callee, and they are still there
Framed(frame) ==
    /\ frame.base >= 2 /\ frame.base + 1 <= Len(stack)
    /\ stack[frame.base] = VFunction(frame.func)
    /\ IsReturnAdress(stack[frame.base - 1])
    /\ SubSeq(stack, 1, frame.base) = frame.below

\* after the Return: ip is the return address, the function of the caller
\* runs, and the stack is what lay below the return address with the value
\* returned on top
Unwound(frame) ==
    /\ ip' = stack[frame.base - 1].ret_ip
    /\ curr_func_index' = frame.func
    /\ stack' = Append(SubSeq(stack, 1, frame.base - 2), Last(stack))

\* C27: when a function entered by Invoke, with the function value of the
\* caller and a return address below the callee, executes Return, then
\* after the step ip is that return address, the caller is the current
\* function, the callee, its arguments, the saved function value and the
\* return address are popped with the return value on top, and fp is the
\* frame base the caller had before the Invoke
C27_ReturnUnwinds ==
    [][(/\ NextInstruction = "Return" /\ frames # <<>>
        /\ Framed(ReturningFrame)
        /\ status' = "running")
       => /\ Unwound(ReturningFrame)
          /\ fp' = ReturningFrame.fp]_vars

\* the same without the frame pointer: the part of the unwinding that
\* Return performs
C27_ReturnUnwindsButFp ==
    [][(/\ NextInstruction = "Return" /\ frames # <<>>
        /\ Framed(ReturningFrame)
        /\ status' = "running"
        /\ Len(stack) = ReturningFrame.base + 2
                            + functions[curr_func_index + 1].param_count)
       => Unwound(ReturningFrame)]_vars

\* a Return has unwound a framed call: the caller runs again at the return
\* address with the value returned on top of its own values, and fp still
\* is the frame base of the callee, above the top of the stack
C27_ReturnedWithCalleeFp ==
    /\ status = "running" /\ frames = <<>>
    /\ curr_func_index = 1
    /\ ip < Len(curr_func.code) /\ NextInstruction = "Print"
    /\ stack = <<VNumber(7), VNumber(1)>>
    /\ fp = 3

---------------------------------------------------------------------------
(* Properties of the lowering of comparisons, checked under Spec *)

\* what a comparison operator means on two numbers
Compares(token_type, l, r) ==
    CASE token_type = "DoubleEqual" -> l = r
      [] token_type = "BangEqual" -> l # r
      [] token_type = "Less" -> l < r
      [] token_type = "LessEqual" -> l <= r
      [] token_type = "Greater" -> l > r
      [] token_type = "GreaterEqual" -> l >= r

ComparisonInstructions ==
    {"Equal", "LessThan", "LessThanOrEqual", "GreaterThan",
     "GreaterThanOrEqual"}

ComparedNumbers == 0..2

\* the stack the VM leaves when it executes the instruction on l and r
Compared(instruction, l, r) ==
    LET S == [Machine EXCEPT !.stack = <<VNumber(l), VNumber(r)>>]
    IN  IF instruction = "Equal" THEN Exec_Equal(S).stack
        ELSE Exec_Binary(S, instruction).stack

\* the byte is an opcode that implements the comparison
Implements(byte, token_type) ==
    /\ byte + 1 \in DOMAIN Instruction
    /\ Instruction[byte + 1] \in ComparisonInstructions
    /\ \A l, r \in ComparedNumbers :
          Compared(Instruction[byte + 1], l, r)
             = <<VBool(Compares(token_type, l, r))>>

\* the code generator has visited both operands of a comparison and is
\* about to emit for its operator
EmitsComparison(operators) ==
    /\ cg_status = "ok" /\ todo # <<>>
    /\ todo[1].task = "infix_emit"
    /\ todo[1].node.operator.token_type \in operators

\* the step appends one opcode implementing the comparison to the code of
\* the two operands, and does not panic
LowersComparison ==
    /\ cg_status' = "ok"
    /\ Len(code') = Len(code) + 1
    /\ SubSeq(code', 1, Len(code)) = code
    /\ Implements(Last(code'), todo[1].node.operator.token_type)
    /\ \E left, right \in spans :
          /\ left.kind = "Expr" /\ right.kind = "Expr"
          /\ left.start = todo[1].start /\ left.end = right.start
          /\ right.end = Len(code)

\* C28: every comparison operator the parser accepts as an infix operator
\* (==, !=, <, <=, >, >=) is lowered to the code of both operands followed
\* by one opcode that implements the comparison, and code generation does
\* not panic on it
C28_ComparisonsLowered ==
    [][EmitsComparison(COMPARISON_OPERATORS) => LowersComparison]_vars

\* the same for the operators other than !=
C28_ComparisonsButBangEqual ==
    [][EmitsComparison(COMPARISON_OPERATORS \ {"BangEqual"})
          => LowersComparison]_vars

\* code generation has panicked at the operator of `1 != 2`, with the code
\* of both operands emitted
C28_BangEqualPanics ==
    /\ cg_status = "panic"
    /\ cg_error = [panic |-> "this token type should not be here"]
    /\ Len(code) >= 4
    /\ SubSeq(code, Len(code) - 3, Len(code))
          = <<as_u8("LoadLitNum"), 1, as_u8("LoadLitNum"), 2>>

---------------------------------------------------------------------------
(* Properties of the interning of heap strings, checked under SpecHeap *)

\* the step called alloc_string and the VM pushed what it returned
AllocStringReturned == last_op.name = "alloc_string" /\ status = "running"

\* C29: alloc_string(s) returns a handle to a heap string whose content is
\* exactly s, also when a different live heap string has the hash of s
C29_AllocStringContent ==
    AllocStringReturned
       => /\ stack # <<>> /\ IsHeap(Last(stack))
          /\ ~IsFreed(mem_manager.cells[Last(stack).ptr])
          /\ mem_manager.cells[Last(stack).ptr].payload = HString(last_op.string)

\* the same when no linked heap string of another content has the hash of
\* s when alloc_string is called
C29_ContentWithoutCollision ==
    [][(/\ last_op'.name = "alloc_string" /\ status' = "running"
        /\ \A p \in LinkedSet(mem_manager) :
              IsHString(mem_manager.cells[p].payload)
                 => \/ mem_manager.cells[p].payload.string = last_op'.string
                    \/ hash_string(mem_manager.cells[p].payload.string)
                          # hash_string(last_op'.string))
       => /\ IsHeap(Last(stack'))
          /\ mem_manager'.cells[Last(stack').ptr].payload
                = HString(last_op'.string)]_vars

\* alloc_string has returned, for a string not allocated before, the handle
\* of a live string of another content and the same hash
C29_CollidingStringReturned ==
    /\ AllocStringReturned
    /\ IsHeap(Last(stack))
    /\ IsHString(mem_manager.cells[Last(stack).ptr].payload)
    /\ mem_manager.cells[Last(stack).ptr].payload.string # last_op.string
    /\ hash_string(mem_manager.cells[Last(stack).ptr].payload.string)
          = hash_string(last_op.string)

\* C30: the assertion of dealloc never fails: every heap string linked in
\* the object list has an entry for the hash of its content in the intern
\* table (the entry is this string), so that whenever sweep, dealloc_all or
\* the drop deallocates a heap string the entry is there to be removed
C30_DeallocFindsInternEntry ==
    /\ mem_manager.fault # "assert_intern_entry"
    /\ status = "panic" => error.panic # "assert_intern_entry"
    /\ \A p \in LinkedSet(mem_manager) :
          IsHString(mem_manager.cells[p].payload)
             => LET hash == hash_string(mem_manager.cells[p].payload.string)
                IN  /\ hash \in DOMAIN mem_manager.intern_string_map
                    /\ mem_manager.intern_string_map[hash] = p

\* a collection has deallocated a heap string, removing its entry, while
\* another heap string stays linked and interned
C30_Witness ==
    /\ last_op.freed_string
    /\ mem_manager.fault = "none" /\ mem_manager.total_deallocs >= 1
    /\ \E p \in LinkedSet(mem_manager) :
          /\ IsHString(mem_manager.cells[p].payload)
          /\ mem_manager.intern_string_map
               [hash_string(mem_manager.cells[p].payload.string)] = p

====
